---- MODULE Spec2Model ----
(***************************************************************************)
(* Model of buildscripts/resmokelib/powercycle/powercycle.py: the          *)
(* controller loop of main(), the agent's remote_handler() and the exit    *)
(* bookkeeping (local_exit, ssh_failure_exit, exit_handler).               *)
(*                                                                         *)
(* The controller blocks on every remote dispatch: a dispatch hands a      *)
(* batch of operations to the agent, the agent runs the batch one          *)
(* operation per step, and the controller resumes on the agent's result.   *)
(***************************************************************************)
EXTENDS Integers, Sequences, FiniteSets, TLC

VARIABLES
    \* ---- controller (main) ----
    pc,                        \* position of main()
    loop_num,                  \* main: loop_num
    test_loops,                \* main: test_loops (after the Windows override)
    crash_method,              \* task_config.crash_method
    canary_doc,                \* main: canary_doc, a set of <<field, value>> pairs
    orig_canary_doc,           \* main: orig_canary_doc
    validated_doc,             \* the doc handed to the last mongo_validate_canary call
    boot_time_after_recovery,  \* main: boot_time_after_recovery
    boot_time_after_crash,     \* main: boot_time_after_crash
    EXIT_YML,                  \* global EXIT_YML
    REPORT_JSON_SUCCESS,       \* global REPORT_JSON_SUCCESS
    report_status,             \* REPORT_JSON["results"][0]["status"]
    exit_status,               \* exit status of the controller process (-1: running)
    now,                       \* time.time() of the controller
    local_ops,                 \* main: local_ops, as the code of its reachability probe
    canary_log,                \* the doc each iteration handed to mongo_insert_canary
    backup_path_before,        \* main: backup_path_before, a string as its characters
    backup_path_after,         \* main: backup_path_after
    trace,                     \* steps of the current iteration, in order
    \* ---- remote channel and agent (remote_handler) ----
    agentPc,                   \* "idle", "pending", "run", "done"
    agentOps,                  \* options.remote_operations
    agentIdx,                  \* index of the operation the for loop is at
    agentPort,                 \* options.port of the agent invocation
    rsync_dest,                \* options.rsync_dest of the agent invocation
    executed,                  \* operations the agent has entered, in order
    opRets,                    \* the code each entered operation ended with
    shellRet,                  \* return code of local_ops.shell / remote_handler
    shellOut,                  \* output of local_ops.shell
    agentRaised,               \* the agent ended by an uncaught exception
    \* ---- host under test ----
    hostBoot,                  \* psutil.boot_time() of the host
    mongodPort,                \* port the mongod on the host listens on, "none" if down
    canaryColl,                \* canary documents stored in the database
    dirs,                      \* backup directories that exist on the host
    rsync_log,                 \* what each rsync_data operation did, in order
    \* ---- configuration ----
    hostWindows,               \* _IS_WINDOWS on the agent
    repl_set,                  \* task_config.repl_set is set
    fcv_set,                   \* task_config.fcv is not None
    logsInfo,                  \* the agent's log level shows LOGGER.info lines
    \* ---- WindowsService, one stop(timeout) call ----
    svcPc,                     \* "idle", "polling" (the while loop of stop), "returned"
                               \* (from stop), "done" (from another method)
    svcState,                  \* state of the service in the OS service table
    svc_pids,                  \* WindowsService.pids
    svc_timeout,               \* stop: timeout
    svc_start,                 \* stop: start
    svc_now,                   \* time.time() on the agent
    svc_status,                \* stop: status
    svc_ret,                   \* stop: the returned code (-1 before the return)
    svc_stop_err,              \* winerror StopService raised (0: none, -1: not called)
    svc_query_err,             \* winerror of each QueryServiceStatus of the call (0: none)
    svc_call,                  \* the method called, the status it saw, its requests to the OS
                               \* and the winerror of the request (0: none, -1: no request)
    \* ---- PosixService ----
    posix_pids,                \* self.pids
    mongod_procs,              \* pids of the running processes named bin_name
    lock_file,                 \* db_path/mongod.lock: "absent", "empty", "nonempty"
    posix_log,                 \* the calls made, in order, with what each saw and left
    \* ---- a process with clients: Processes, NamedTempFile, the OS around them ----
    localPc,                   \* "running", "exited"
    local_exit_path,           \* how the process ended, its exit code, _PROC_LIST at that time
    PROC_LIST,                 \* Processes._PROC_LIST, each proc as its pid and create_time
    os_procs,                  \* process table of the OS: creation time and parent per pid
    os_clock,                  \* creation time of the next process
    killed,                    \* the processes proc.kill() was sent to
    warn_log,                  \* pids of "Could not kill process %d" warnings
    kill_calls,                \* what each kill_process call did, in order
    FILE_MAP,                  \* names of NamedTempFile._FILE_MAP
    DIR_LIST,                  \* NamedTempFile._DIR_LIST
    fs_files,                  \* temporary files that exist
    fs_dirs,                   \* temporary directories that exist
    file_seq,                  \* number of the next temporary file
    unremovable,               \* paths os.remove / shutil.rmtree fail on
    \* ---- the local resources of main's iteration ----
    iter_pc,                   \* "head", "validate", "clients": where the iteration is
    local_loops,               \* iterations whose cleanup is done
    temp_client_files,         \* main: temp_client_files
    client_config_files,       \* new_config_file, crud_config_file, fsm_config_file of the iteration
    ssh_tunnel_proc,           \* main: ssh_tunnel_proc, as its pid and create_time
    clients_started,           \* turns of the two client loops done in the iteration
    \* ---- the loops that run a command or a query again ----
    retry_pc,                  \* "idle", "looping", "returned", "raised"
    retry_fn,                  \* the function called: "rsync", "mongo_shell",
                               \* "start_mongod_query" (the query loop of start_mongod),
                               \* "wait_for_mongod_shutdown", or a lifecycle operation
    retry_runs,                \* each run of the command or query: its outcome and its time
    retry_ret,                 \* the code the function returned (-1 before the return)
    retry_start,               \* wait_for_mongod_shutdown: start
    retry_now,                 \* time.time()
    retry_timeout,             \* wait_for_mongod_shutdown: timeout
    retry_op_ret               \* the code of the operation that called the function

ctlVars == <<pc, loop_num, test_loops, crash_method, canary_doc, orig_canary_doc,
             validated_doc, boot_time_after_recovery, boot_time_after_crash,
             EXIT_YML, REPORT_JSON_SUCCESS, report_status, exit_status, now,
             local_ops, canary_log, backup_path_before, backup_path_after>>
agentVars == <<agentPc, agentOps, agentIdx, agentPort, rsync_dest, executed, opRets, shellRet, shellOut,
               agentRaised>>
fsVars == <<dirs, rsync_log>>
hostVars == <<hostBoot, mongodPort, canaryColl, fsVars>>
cfgVars == <<hostWindows, repl_set, fcv_set, logsInfo>>
svcVars == <<svcPc, svcState, svc_pids, svc_timeout, svc_start, svc_now, svc_status, svc_ret,
             svc_stop_err, svc_query_err, svc_call>>
posixVars == <<posix_pids, mongod_procs, lock_file, posix_log>>
procVars == <<localPc, local_exit_path, PROC_LIST, os_procs, os_clock, killed, warn_log,
              kill_calls, FILE_MAP, DIR_LIST, fs_files, fs_dirs, file_seq, unremovable>>
iterVars == <<iter_pc, local_loops, temp_client_files, client_config_files, ssh_tunnel_proc,
              clients_started>>
retryVars == <<retry_pc, retry_fn, retry_runs, retry_ret, retry_start, retry_now,
               retry_timeout, retry_op_ret>>
localVars == <<svcVars, posixVars, procVars, iterVars, retryVars>>
vars == <<ctlVars, agentVars, hostVars, cfgVars, localVars, trace>>

(***************************************************************************)
(* Bounds of the model.                                                    *)
(***************************************************************************)
MaxLoops == 2      \* largest configured task_config.test_loops
MaxOps == 2        \* longest batch handed to a stand-alone agent
MaxBoots == 2      \* the host crashes on its own only while its boot count is below this
MaxPathLoops == 12 \* backup paths are computed for loops up to this one
MaxTimeout == 7    \* the deadline stop() is given, in seconds
MaxPids == 3       \* pids the OS hands out
MaxSpawns == 4     \* processes started in all
MaxFiles == 2      \* temporary files created before the first iteration
MaxLocalLoops == 1 \* iterations of the local resources
NumClients == 2    \* num_crud_clients + num_fsm_clients
MaxCalls == 3      \* calls made on a PosixService

(***************************************************************************)
(* Program constants.                                                      *)
(***************************************************************************)
WindowsMaxLoops == 10     \* main: "Execute no more than 10 test loops"
BootTimeNotFound == -1    \* get_boot_datetime: "Return -1 if it is not found"
StopPollSecs == 3         \* WindowsService.stop: time.sleep(3)
ERROR_BROKEN_PIPE == 109  \* winerror.ERROR_BROKEN_PIPE: "(winerror=109)"
RsyncMaxAttempts == 5     \* rsync: max_attempts = 5
ShellRetries == 5         \* mongo_shell: retries=5
ShellRetrySleep == 5      \* mongo_shell: retry_sleep=5
QueryAttempts == 100      \* start_mongod: for _ in range(100)
WaitPollSecs == 3         \* wait_for_mongod_shutdown: time.sleep(3)
WaitFlushSecs == 5        \* wait_for_mongod_shutdown: time.sleep(5)

\* Return codes a command, a remote shell call or a service call can end with.
Codes == {0, 1, 255}
NonZero == Codes \ {0}

CrashMethods == {"internal", "kill", "other"}

\* The closed vocabulary of remote_handler, and a name outside of it.
Operations == {"noop", "crash_server", "kill_mongod", "install_mongod", "start_mongod",
               "stop_mongod", "shutdown_mongod", "rsync_data", "seed_docs", "set_fcv",
               "check_disk"}
OperationNames == Operations \cup {"bogus"}

NoOutput == [booted |-> <<>>, ssh_error |-> FALSE]

\* One step of the current iteration: who did what, and the port of the server
\* the step connects to ("none" for a step that contacts no server).
Step(who, ev, port) == [who |-> who, ev |-> ev, port |-> port]

(***************************************************************************)
(* Pure helpers.                                                           *)
(***************************************************************************)
\* get_boot_datetime: the boot time of the first "last booted ..., up" line
\* of the output, -1 when the output has no such line.
get_boot_datetime(output) ==
    IF Len(output.booted) > 0 THEN Head(output.booted) ELSE BootTimeNotFound

\* pymongo find_one(filter): some stored document has every field of the filter.
find_one(coll, doc) == \E d \in coll : doc \subseteq d

\* A validation that reports every document as found.
mongo_validate_canary_Mut(coll, doc) == 0

\* mongo_validate_canary: 0 for an empty doc or a doc that is found, else 1.
mongo_validate_canary(coll, doc) ==
    IF doc = {} THEN 0
    ELSE IF find_one(coll, doc) THEN 0 ELSE 1

\* insert_one adds an _id field to the document it is handed.
WithId(doc, oid) == doc \cup {<<"_id", oid>>}

\* "{}".format(n): the decimal digits of a number, as characters.
Digit(d) == <<"0", "1", "2", "3", "4", "5", "6", "7", "8", "9">>[d + 1]
RECURSIVE Decimal(_)
Decimal(n) == IF n < 10 THEN <<Digit(n)>> ELSE Decimal(n \div 10) \o <<Digit(n % 10)>>

\* The string ends with the given characters.
EndsWith(str, suffix) ==
    /\ Len(str) >= Len(suffix)
    /\ SubSeq(str, Len(str) - Len(suffix) + 1, Len(str)) = suffix

\* A path that is never advanced.
get_backup_path_Same_Mut(path, n) == path

\* A path whose suffix is rewritten whatever it was.
get_backup_path_Mut(path, n) == path \o <<"-">> \o Decimal(n)

\* get_backup_path: re.sub("-{n-1}$", "-{n}", path); a path that does not end
\* in "-{n-1}" is returned as it is.
get_backup_path(path, n) ==
    IF EndsWith(path, <<"-">> \o Decimal(n - 1))
    THEN SubSeq(path, 1, Len(path) - Len(<<"-">> \o Decimal(n - 1))) \o <<"-">> \o Decimal(n)
    ELSE path

\* powercycle_constants.BACKUP_PATH_BEFORE and BACKUP_PATH_AFTER.
BACKUP_PATH_BEFORE == <<"b">>
BACKUP_PATH_AFTER == <<"a">>

\* "Set the first backup directory, for loop 1": f"{path}-1".
first_backup_path(path) == path \o <<"-", "1">>

\* The backup path of loop n: main() starts from the first backup directory
\* and hands the path of the loop before to get_backup_path in every loop.
RECURSIVE backup_path(_, _)
backup_path(base, n) ==
    IF n = 1
    THEN get_backup_path(first_backup_path(base), 1)
    ELSE get_backup_path(backup_path(base, n - 1), n)

\* access_established(): the reachability probe of the channel ended with code 0.
access_established(code) == code = 0

(***************************************************************************)
(* Exit bookkeeping.                                                       *)
(***************************************************************************)
\* exit_handler: the report entry is "pass" only if REPORT_JSON_SUCCESS is set.
exit_handler ==
    report_status' = IF REPORT_JSON_SUCCESS' THEN "pass" ELSE "fail"

\* sys.exit(code): the process ends with `code`, the atexit handler runs.
SysExit(code) ==
    /\ exit_status' = code
    /\ pc' = "exited"
    /\ exit_handler

\* local_exit: record the code in EXIT_YML, then sys.exit.
local_exit(code) ==
    /\ EXIT_YML' = [EXIT_YML EXCEPT !.exit_code = code]
    /\ SysExit(code)

\* An exit that leaves the transport failure detail out.
ssh_failure_exit_Mut(code) == local_exit(code)

\* ssh_failure_exit: record the transport failure detail, then local_exit.
ssh_failure_exit(code) ==
    /\ EXIT_YML' = [exit_code |-> code, ec2_ssh_failure |-> "recorded"]
    /\ SysExit(code)

\* An uncaught exception: EXIT_YML is left as it is, the interpreter exits with 1.
RaiseException ==
    /\ UNCHANGED EXIT_YML
    /\ SysExit(1)

\* A probe whose result is not looked at.
verify_remote_access_Mut(code) == FALSE

\* verify_remote_access: the probe's code when access is not established
\* ends the run through ssh_failure_exit.
verify_remote_access_fails(code) == ~access_established(code)

(***************************************************************************)
(* The remote channel: call_remote_operation / local_ops.shell.            *)
(***************************************************************************)
\* The agent invocation has no --rsyncDest option.
NoRsyncDest == <<>>

\* Hand a batch with its --rsyncDest option to the agent; the controller
\* blocks until agentPc = "done".
DispatchRsync(ops, port, dest) ==
    /\ agentPc' = "pending"
    /\ agentOps' = ops
    /\ agentIdx' = 1
    /\ agentPort' = port
    /\ rsync_dest' = dest
    /\ executed' = <<>>
    /\ opRets' = <<>>
    /\ shellRet' = 0
    /\ shellOut' = NoOutput
    /\ agentRaised' = FALSE

\* Hand a batch without --rsyncDest to the agent.
Dispatch(ops, port) == DispatchRsync(ops, port, NoRsyncDest)

Returned(p) == pc = p /\ agentPc = "done"

AgentIdle ==
    /\ agentPc' = "idle"
    /\ UNCHANGED <<agentOps, agentIdx, agentPort, rsync_dest, executed, opRets, shellRet, shellOut,
                   agentRaised>>

(***************************************************************************)
(* Pieces of main() that decide the run.                                   *)
(***************************************************************************)
\* A flag that is set one loop too late.
validate_canary_local_Mut(n) == n > 2

\* validate_canary_local: set only after the first loop.
validate_canary_local(n) == n > 1

\* A batch that seeds the collection and sets the version in every loop.
SecretBatch_Mut(n) ==
    <<"rsync_data", "start_mongod">>
        \o (IF fcv_set THEN <<"set_fcv">> ELSE <<>>)
        \o <<"seed_docs">>

\* The secret-port batch: rsync_data, start_mongod and, on loop 1 only,
\* set_fcv (when an fcv is configured) and seed_docs.
SecretBatch(n) ==
    <<"rsync_data", "start_mongod">>
        \o (IF n = 1 /\ fcv_set THEN <<"set_fcv">> ELSE <<>>)
        \o (IF n = 1 THEN <<"seed_docs">> ELSE <<>>)

StandardBatch == <<"rsync_data", "start_mongod">>

\* crash_server_or_kill_mongod: the operation the crash method selects.
CrashSupported(method) == method = "internal" \/ method = "kill"
\* A crash command that does not depend on the crash method.
crash_cmd_Mut(method) == "crash_server"

crash_cmd(method) == IF method = "internal" THEN "crash_server" ELSE "kill_mongod"

\* A crash step whose code is never looked at.
CrashFailed_Mut(method, ret) == FALSE

\* "if task_config.crash_method != 'internal' and ret: raise"
CrashFailed(method, ret) == method # "internal" /\ ret # 0

\* "if crash_method != 'kill': if crash_method == 'internal' and ssh_error(output)"
CrashSshError(method, output) ==
    method # "kill" /\ method = "internal" /\ output.ssh_error

\* A comparison that is made whatever the crash method is.
BootTimeCheckAlways_Mut(method, after_crash, after_recovery) ==
    IF after_crash = BootTimeNotFound \/ after_recovery = BootTimeNotFound
    THEN FALSE
    ELSE after_crash <= after_recovery

\* A comparison that lets an unchanged boot time pass.
BootTimeCheckFails_Mut(method, after_crash, after_recovery) ==
    IF after_crash = BootTimeNotFound \/ after_recovery = BootTimeNotFound
    THEN FALSE
    ELSE method # "kill" /\ after_crash < after_recovery

\* The boot time comparison after the noop dispatch: TRUE when main raises.
BootTimeCheckFails(method, after_crash, after_recovery) ==
    IF after_crash = BootTimeNotFound \/ after_recovery = BootTimeNotFound
    THEN FALSE
    ELSE method # "kill" /\ after_crash <= after_recovery

\* An iteration end that keeps the dict insert_one has written the _id to.
RestoredCanary_Mut(doc, orig) == doc

\* "canary_doc = copy.deepcopy(orig_canary_doc)" at the end of the iteration.
RestoredCanary(doc, orig) == orig

\* A loop that is left after its first iteration.
LoopsDone_Mut(n, loops) == n >= 1

\* A loop that is never left.
LoopsDone_Never_Mut(n, loops) == FALSE

\* "if loop_num == test_loops: break"
LoopsDone(n, loops) == n = loops

(***************************************************************************)
(* The controller: main().                                                 *)
(***************************************************************************)
\* Lines up to the install dispatch: the configuration checks, the first
\* LocalToRemoteOperations and verify_remote_access, then install_mongod.
Main_Setup ==
    /\ pc = "setup"
    /\ UNCHANGED <<loop_num, test_loops, crash_method, backup_path_before, backup_path_after, canary_log, canary_doc, orig_canary_doc,
                   validated_doc, boot_time_after_recovery, boot_time_after_crash,
                   REPORT_JSON_SUCCESS, now, trace, hostVars, cfgVars, localVars>>
    /\ \E crudConfigExists \in BOOLEAN, nojournal \in BOOLEAN, code \in Codes :
         IF ~crudConfigExists \/ nojournal
         THEN /\ local_exit(1)
              /\ UNCHANGED <<agentVars, local_ops>>
         ELSE IF verify_remote_access_fails(code)
         THEN /\ local_ops' = code
              /\ ssh_failure_exit(code)
              /\ UNCHANGED agentVars
         ELSE /\ local_ops' = code
              /\ Dispatch(<<"install_mongod">>, "default")
              /\ pc' = "await_install"
              /\ UNCHANGED <<EXIT_YML, report_status, exit_status>>

Main_AfterInstall ==
    /\ Returned("await_install")
    /\ UNCHANGED <<loop_num, test_loops, crash_method, backup_path_before, backup_path_after, local_ops, canary_log, canary_doc, orig_canary_doc,
                   validated_doc, boot_time_after_recovery, boot_time_after_crash,
                   REPORT_JSON_SUCCESS, now, trace, hostVars, cfgVars, localVars>>
    /\ AgentIdle
    /\ IF shellRet # 0
       THEN local_exit(shellRet)
       ELSE /\ pc' = "loop_head"
            /\ UNCHANGED <<EXIT_YML, report_status, exit_status>>

\* Top of the while loop: count the loop, dispatch the secret-port batch.
Main_StartSecret ==
    /\ pc = "loop_head"
    /\ loop_num <= MaxLoops
    /\ UNCHANGED <<test_loops, crash_method, backup_path_after, local_ops, canary_log, canary_doc, orig_canary_doc, validated_doc,
                   boot_time_after_recovery, boot_time_after_crash, EXIT_YML,
                   REPORT_JSON_SUCCESS, report_status, exit_status, now, hostVars, cfgVars, localVars>>
    /\ loop_num' = loop_num + 1
    /\ backup_path_before' = get_backup_path(backup_path_before, loop_num')
    /\ DispatchRsync(SecretBatch(loop_num'), "secret",
                     <<backup_path_before, backup_path_before'>>)
    /\ trace' = <<Step("main", "start_secret", "none")>>
    /\ pc' = "await_secret"

\* The secret-port batch returned: fail on a non-zero code, else open the tunnel.
Main_SetupTunnel ==
    /\ Returned("await_secret")
    /\ UNCHANGED <<loop_num, test_loops, crash_method, backup_path_before, backup_path_after, local_ops, canary_log, canary_doc, orig_canary_doc,
                   validated_doc, boot_time_after_recovery, boot_time_after_crash,
                   REPORT_JSON_SUCCESS, now, hostVars, cfgVars, localVars>>
    /\ AgentIdle
    /\ IF shellRet # 0
       THEN /\ local_exit(shellRet)
            /\ UNCHANGED trace
       ELSE /\ pc' = "canary"
            /\ trace' = Append(trace, Step("main", "tunnel", "none"))
            /\ UNCHANGED <<EXIT_YML, report_status, exit_status>>

\* "if validate_canary_local": validate the canary through the tunnel.
Main_ValidateCanary ==
    /\ pc = "canary"
    /\ UNCHANGED <<loop_num, test_loops, crash_method, backup_path_before, backup_path_after, local_ops, canary_log, canary_doc, orig_canary_doc,
                   boot_time_after_recovery, boot_time_after_crash,
                   REPORT_JSON_SUCCESS, now, agentVars, hostVars, cfgVars, localVars>>
    /\ IF validate_canary_local(loop_num)
       THEN /\ validated_doc' = canary_doc
            /\ trace' = Append(trace, Step("main", "validate_canary", "secret"))
            /\ \E connected \in BOOLEAN :
                 IF ~connected
                 THEN RaiseException
                 ELSE IF mongo_validate_canary(canaryColl, canary_doc) # 0
                 THEN local_exit(mongo_validate_canary(canaryColl, canary_doc))
                 ELSE /\ pc' = "validate"
                      /\ UNCHANGED <<EXIT_YML, report_status, exit_status>>
       ELSE /\ pc' = "validate"
            /\ UNCHANGED <<validated_doc, trace, EXIT_YML, report_status, exit_status>>

\* Local collection validation against the secret port (resmoke_client, waited for).
Main_ValidateCollections ==
    /\ pc = "validate"
    /\ UNCHANGED <<loop_num, test_loops, crash_method, backup_path_before, backup_path_after, local_ops, canary_log, canary_doc, orig_canary_doc,
                   validated_doc, boot_time_after_recovery, boot_time_after_crash,
                   REPORT_JSON_SUCCESS, now, agentVars, hostVars, cfgVars, localVars>>
    /\ trace' = Append(trace, Step("main", "validate_collections", "secret"))
    /\ \E ret \in Codes :
         IF ret # 0
         THEN local_exit(ret)
         ELSE /\ pc' = "shutdown"
              /\ UNCHANGED <<EXIT_YML, report_status, exit_status>>

Main_ShutdownSecret ==
    /\ pc = "shutdown"
    /\ UNCHANGED <<loop_num, test_loops, crash_method, backup_path_before, backup_path_after, local_ops, canary_log, canary_doc, orig_canary_doc,
                   validated_doc, boot_time_after_recovery, boot_time_after_crash,
                   EXIT_YML, REPORT_JSON_SUCCESS, report_status, exit_status, now,
                   hostVars, cfgVars, localVars>>
    /\ Dispatch(<<"shutdown_mongod">>, "secret")
    /\ trace' = Append(trace, Step("main", "shutdown_secret", "none"))
    /\ pc' = "await_shutdown"

\* shutdown_mongod returned: fail on a non-zero code, else dispatch the
\* standard-port batch.
Main_StartStandard ==
    /\ Returned("await_shutdown")
    /\ UNCHANGED <<loop_num, test_loops, crash_method, backup_path_before, local_ops, canary_log, canary_doc, orig_canary_doc,
                   validated_doc, boot_time_after_recovery, boot_time_after_crash,
                   REPORT_JSON_SUCCESS, now, hostVars, cfgVars, localVars>>
    /\ IF shellRet # 0
       THEN /\ local_exit(shellRet)
            /\ AgentIdle
            /\ UNCHANGED <<trace, backup_path_after>>
       ELSE /\ backup_path_after' = get_backup_path(backup_path_after, loop_num)
            /\ DispatchRsync(StandardBatch, "standard",
                             <<backup_path_after, backup_path_after'>>)
            /\ trace' = Append(trace, Step("main", "start_standard", "none"))
            /\ pc' = "await_standard"
            /\ UNCHANGED <<EXIT_YML, report_status, exit_status>>

\* The standard-port batch returned: fail on a non-zero code, else record the
\* boot time of its output and start the CRUD and FSM clients.
Main_StartClients ==
    /\ Returned("await_standard")
    /\ UNCHANGED <<loop_num, test_loops, crash_method, backup_path_before, backup_path_after, local_ops, canary_log, canary_doc, orig_canary_doc,
                   validated_doc, boot_time_after_crash,
                   REPORT_JSON_SUCCESS, now, hostVars, cfgVars, localVars>>
    /\ AgentIdle
    /\ IF shellRet # 0
       THEN /\ local_exit(shellRet)
            /\ UNCHANGED <<boot_time_after_recovery, trace>>
       ELSE /\ boot_time_after_recovery' = get_boot_datetime(shellOut)
            /\ trace' = Append(trace, Step("main", "start_clients", "standard"))
            /\ pc' = "crash"
            /\ UNCHANGED <<EXIT_YML, report_status, exit_status>>

\* "canary_doc = {'x': time.time()}", then crash_server_or_kill_mongod up to
\* its choice of the crash command: the jittered sleep, and for an unsupported
\* crash method "return 1, message", on which main raises.
Main_CrashWait ==
    /\ pc = "crash"
    /\ UNCHANGED <<loop_num, test_loops, crash_method, backup_path_before, backup_path_after, local_ops, canary_log, validated_doc,
                   boot_time_after_recovery, boot_time_after_crash,
                   REPORT_JSON_SUCCESS, agentVars, hostVars, cfgVars, localVars>>
    /\ canary_doc' = {<<"x", now>>}
    /\ orig_canary_doc' = canary_doc'
    /\ now' = now + 1
    /\ trace' = Append(trace, Step("main", "crash_wait", "none"))
    /\ IF CrashSupported(crash_method)
       THEN /\ pc' = "insert_canary"
            /\ UNCHANGED <<EXIT_YML, report_status, exit_status>>
       ELSE IF CrashFailed(crash_method, 1)
       THEN RaiseException
       ELSE /\ pc' = "cleanup"
            /\ UNCHANGED <<EXIT_YML, report_status, exit_status>>

\* A crash step that goes on to the crash command without the canary function.
Main_InsertCanary_Mut ==
    /\ pc = "insert_canary"
    /\ pc' = "dispatch_crash"
    /\ UNCHANGED <<loop_num, test_loops, crash_method, backup_path_before, backup_path_after, local_ops, canary_log, canary_doc, orig_canary_doc,
                   validated_doc, boot_time_after_recovery, boot_time_after_crash,
                   EXIT_YML, REPORT_JSON_SUCCESS, report_status, exit_status, now,
                   agentVars, hostVars, cfgVars, localVars, trace>>

\* crash_canary["function"](*crash_canary["args"]): mongo_insert_canary, whose
\* insert_one adds the _id to the very dict main holds as canary_doc.
Main_InsertCanary ==
    /\ pc = "insert_canary"
    /\ UNCHANGED <<loop_num, test_loops, crash_method, backup_path_before, backup_path_after, local_ops, orig_canary_doc, validated_doc,
                   boot_time_after_recovery, boot_time_after_crash,
                   REPORT_JSON_SUCCESS, now, agentVars, hostBoot, mongodPort, fsVars, cfgVars, localVars>>
    /\ trace' = Append(trace, Step("main", "insert_canary", "standard"))
    /\ \E inserted \in BOOLEAN :
         IF inserted
         THEN /\ canary_log' = Append(canary_log, canary_doc)
              /\ canary_doc' = WithId(canary_doc, loop_num)
              /\ canaryColl' = canaryColl \cup {WithId(canary_doc, loop_num)}
              /\ pc' = "dispatch_crash"
              /\ UNCHANGED <<EXIT_YML, report_status, exit_status>>
         ELSE /\ RaiseException
              /\ UNCHANGED <<canary_doc, canaryColl, canary_log>>

\* "ret, output = crash_func(*crash_args)"
Main_DispatchCrash ==
    /\ pc = "dispatch_crash"
    /\ UNCHANGED <<loop_num, test_loops, crash_method, backup_path_before, backup_path_after, local_ops, canary_log, canary_doc, orig_canary_doc,
                   validated_doc, boot_time_after_recovery, boot_time_after_crash,
                   EXIT_YML, REPORT_JSON_SUCCESS, report_status, exit_status, now,
                   hostVars, cfgVars, localVars>>
    /\ Dispatch(<<crash_cmd(crash_method)>>, "default")
    /\ trace' = Append(trace, Step("main", "dispatch_crash", "none"))
    /\ pc' = "await_crash"

\* The crash dispatch returned: raise on a failed kill, ssh_failure_exit on an
\* ssh error of an internal crash, else kill the clients and the tunnel.
Main_Cleanup ==
    /\ \/ Returned("await_crash")
       \/ pc = "cleanup"
    /\ UNCHANGED <<loop_num, test_loops, crash_method, backup_path_before, backup_path_after, local_ops, canary_log, canary_doc, orig_canary_doc,
                   validated_doc, boot_time_after_recovery, boot_time_after_crash,
                   REPORT_JSON_SUCCESS, now, hostVars, cfgVars, localVars>>
    /\ AgentIdle
    /\ IF pc = "await_crash" /\ CrashFailed(crash_method, shellRet)
       THEN /\ RaiseException
            /\ UNCHANGED trace
       ELSE IF pc = "await_crash" /\ CrashSshError(crash_method, shellOut)
       THEN /\ ssh_failure_exit(shellRet)
            /\ UNCHANGED trace
       ELSE /\ pc' = "reconnect"
            /\ trace' = Append(trace, Step("main", "cleanup", "none"))
            /\ UNCHANGED <<EXIT_YML, report_status, exit_status>>

\* A fresh LocalToRemoteOperations, verify_remote_access, then the noop dispatch.
Main_Reconnect ==
    /\ pc = "reconnect"
    /\ UNCHANGED <<loop_num, test_loops, crash_method, backup_path_before, backup_path_after, canary_log, canary_doc, orig_canary_doc,
                   validated_doc, boot_time_after_recovery, boot_time_after_crash,
                   REPORT_JSON_SUCCESS, now, hostVars, cfgVars, localVars>>
    /\ \E code \in Codes :
         /\ local_ops' = code
         /\ IF verify_remote_access_fails(code)
            THEN /\ ssh_failure_exit(code)
                 /\ UNCHANGED <<agentVars, trace>>
            ELSE /\ Dispatch(<<"noop">>, "default")
                 /\ trace' = Append(trace, Step("main", "reconnect", "none"))
                 /\ pc' = "await_noop"
                 /\ UNCHANGED <<EXIT_YML, report_status, exit_status>>

\* The noop dispatch returned (its code is not looked at): compare the boot
\* times, restore the canary, then end the run or dispatch check_disk.
Main_BootCheck ==
    /\ Returned("await_noop")
    /\ UNCHANGED <<loop_num, test_loops, crash_method, backup_path_before, backup_path_after, local_ops, canary_log, orig_canary_doc, validated_doc,
                   boot_time_after_recovery, now, hostVars, cfgVars, localVars>>
    /\ boot_time_after_crash' = get_boot_datetime(shellOut)
    /\ IF BootTimeCheckFails(crash_method, boot_time_after_crash', boot_time_after_recovery)
       THEN /\ UNCHANGED <<REPORT_JSON_SUCCESS, canary_doc, trace>>
            /\ RaiseException
            /\ AgentIdle
       ELSE /\ canary_doc' = RestoredCanary(canary_doc, orig_canary_doc)
            /\ trace' = Append(trace, Step("main", "boot_check_passed", "none"))
            /\ IF LoopsDone(loop_num, test_loops)
               THEN /\ REPORT_JSON_SUCCESS' = TRUE
                    /\ local_exit(0)
                    /\ AgentIdle
               ELSE /\ Dispatch(<<"check_disk">>, "default")
                    /\ pc' = "await_check_disk"
                    /\ UNCHANGED <<REPORT_JSON_SUCCESS, EXIT_YML, report_status, exit_status>>

\* check_disk returned: its code is only logged.
Main_AfterCheckDisk ==
    /\ Returned("await_check_disk")
    /\ AgentIdle
    /\ pc' = "loop_head"
    /\ UNCHANGED <<loop_num, test_loops, crash_method, backup_path_before, backup_path_after, local_ops, canary_log, canary_doc, orig_canary_doc,
                   validated_doc, boot_time_after_recovery, boot_time_after_crash,
                   EXIT_YML, REPORT_JSON_SUCCESS, report_status, exit_status, now,
                   trace, hostVars, cfgVars, localVars>>

\* "if options.remote_operation: ret = remote_handler(...); local_exit(ret)":
\* the program run as the agent ends with remote_handler's code.
Main_RemoteExit ==
    /\ pc = "agent"
    /\ agentPc = "done"
    /\ UNCHANGED <<loop_num, test_loops, crash_method, backup_path_before, backup_path_after, local_ops, canary_log, canary_doc, orig_canary_doc,
                   validated_doc, boot_time_after_recovery, boot_time_after_crash,
                   REPORT_JSON_SUCCESS, now, trace, hostVars, cfgVars, localVars>>
    /\ AgentIdle
    /\ IF agentRaised THEN RaiseException ELSE local_exit(shellRet)

(***************************************************************************)
(* The agent: remote_handler().                                            *)
(***************************************************************************)
\* Values WindowsService.status() / PosixService.status() can return.
ServiceStates == {"continue pending", "pause pending", "paused", "running", "start pending",
                  "stopped", "stop pending", "unknown", "not installed"}

\* The for loop is at operation `op`.
AgentAt(op) ==
    /\ agentPc = "run"
    /\ agentIdx <= Len(agentOps)
    /\ agentOps[agentIdx] = op

\* A for loop that goes on after a failed operation.
ReturnsOnFailure_Mut(ret) == FALSE

\* "if ret: return ret" at the bottom of the for loop (and the early
\* "return ret" statements inside kill_mongod, start_mongod and check_disk).
ReturnsOnFailure(ret) == ret # 0

\* An operation ended with `ret`: return it when it is non-zero, else go on
\* with the next operation.
OpEnd(ret) ==
    /\ executed' = Append(executed, agentOps[agentIdx])
    /\ opRets' = Append(opRets, ret)
    /\ IF ReturnsOnFailure(ret)
       THEN /\ agentPc' = "done"
            /\ shellRet' = ret
            /\ UNCHANGED agentIdx
       ELSE /\ agentIdx' = agentIdx + 1
            /\ UNCHANGED <<agentPc, shellRet>>
    /\ UNCHANGED <<agentOps, agentPort, rsync_dest, shellOut, agentRaised>>

\* An operation raised: the agent process ends with exit status 1.
OpRaise ==
    /\ executed' = Append(executed, agentOps[agentIdx])
    /\ opRets' = Append(opRets, 1)
    /\ agentPc' = "done"
    /\ shellRet' = 1
    /\ agentRaised' = TRUE
    /\ UNCHANGED <<agentOps, agentIdx, agentPort, rsync_dest, shellOut>>

\* The transport fails before the agent runs: a non-zero code and no agent output.
Shell_TransportFail ==
    /\ agentPc = "pending"
    /\ pc # "agent"
    /\ \E code \in NonZero, err \in BOOLEAN :
         /\ shellRet' = code
         /\ shellOut' = [booted |-> <<>>, ssh_error |-> err]
    /\ agentPc' = "done"
    /\ UNCHANGED <<agentOps, agentIdx, agentPort, rsync_dest, executed, opRets, agentRaised>>
    /\ UNCHANGED <<ctlVars, hostVars, cfgVars, localVars, trace>>

\* Entry of remote_handler: no operation is an error, print_uptime logs the
\* boot time of the host.
Agent_Begin ==
    /\ agentPc = "pending"
    /\ IF agentOps = <<>>
       THEN /\ agentPc' = "done"
            /\ shellRet' = 1
            /\ agentRaised' = TRUE
            /\ UNCHANGED shellOut
       ELSE /\ agentPc' = "run"
            /\ shellOut' = [booted |-> IF logsInfo THEN <<hostBoot>> ELSE <<>>,
                            ssh_error |-> FALSE]
            /\ UNCHANGED <<shellRet, agentRaised>>
    /\ UNCHANGED <<agentOps, agentIdx, agentPort, rsync_dest, executed, opRets>>
    /\ UNCHANGED <<ctlVars, hostVars, cfgVars, localVars, trace>>

\* The for loop ran out of operations: "return 0".
Agent_End ==
    /\ agentPc = "run"
    /\ agentIdx > Len(agentOps)
    /\ agentPc' = "done"
    /\ shellRet' = 0
    /\ UNCHANGED <<agentOps, agentIdx, agentPort, rsync_dest, executed, opRets, shellOut, agentRaised>>
    /\ UNCHANGED <<ctlVars, hostVars, cfgVars, localVars, trace>>

Op_noop ==
    /\ AgentAt("noop")
    /\ OpEnd(0)
    /\ UNCHANGED <<ctlVars, hostVars, cfgVars, localVars, trace>>

\* A crash of the host loses what the database had not made durable.
AfterCrash(coll) == {coll, {}}

\* crash_server: internal_crash(). When the host goes down the agent never
\* returns and the remote shell ends with a non-zero code; when it stays up
\* internal_crash returns 1 (the command's code on Windows).
Op_crash_server ==
    /\ AgentAt("crash_server")
    /\ \E crashed \in BOOLEAN :
         IF crashed
         THEN /\ hostBoot' = hostBoot + 1
              /\ mongodPort' = "none"
              /\ canaryColl' \in AfterCrash(canaryColl)
              /\ UNCHANGED fsVars
              /\ \E code \in NonZero, err \in BOOLEAN :
                   /\ shellRet' = code
                   /\ shellOut' = [shellOut EXCEPT !.ssh_error = err]
                   /\ opRets' = Append(opRets, code)
              /\ executed' = Append(executed, agentOps[agentIdx])
              /\ agentPc' = "done"
              /\ UNCHANGED <<agentOps, agentIdx, agentPort, rsync_dest, agentRaised>>
         ELSE /\ \E ret \in (IF hostWindows THEN Codes ELSE {1}) : OpEnd(ret)
              /\ UNCHANGED hostVars
    /\ UNCHANGED <<ctlVars, cfgVars, localVars, trace>>

\* kill_mongod: "ret = 1" when the service is not stopped after mongod.stop,
\* else the code of mongod.stop.
kill_mongod_ret(retStop, status) == IF status # "stopped" THEN 1 ELSE retStop

Op_kill_mongod ==
    /\ AgentAt("kill_mongod")
    /\ \E retKill \in Codes :
         IF retKill # 0
         THEN /\ OpEnd(retKill)
              /\ UNCHANGED hostVars
         ELSE /\ mongodPort' = "none"
              /\ canaryColl' \in AfterCrash(canaryColl)
              /\ UNCHANGED <<hostBoot, fsVars>>
              /\ \E retStop \in (IF hostWindows THEN Codes ELSE {0}),
                    status \in (IF hostWindows THEN ServiceStates ELSE {"stopped"}) :
                   OpEnd(kill_mongod_ret(retStop, status))
    /\ UNCHANGED <<ctlVars, cfgVars, localVars, trace>>

\* install_mongod: mongod.install's code, replaced on Windows by the code of
\* set_windows_bootstatuspolicy.
install_mongod_ret(retInstall, retPolicy) == IF hostWindows THEN retPolicy ELSE retInstall

Op_install_mongod ==
    /\ AgentAt("install_mongod")
    /\ \E raised \in BOOLEAN, retInstall \in Codes, retPolicy \in Codes :
         IF raised THEN OpRaise ELSE OpEnd(install_mongod_ret(retInstall, retPolicy))
    /\ UNCHANGED <<ctlVars, hostVars, cfgVars, localVars, trace>>

\* start_mongod: the code of mongod.update is replaced by the code of
\* mongod.start; then the code of mongo_reconfig_replication with a replica set.
start_mongod_ret(retUpdate, retStart, retReconfig) ==
    IF repl_set THEN retReconfig ELSE retStart

Op_start_mongod ==
    /\ AgentAt("start_mongod")
    /\ \E retUpdate \in (IF hostWindows THEN Codes ELSE {0}), retStart \in Codes :
         IF retStart # 0
         THEN /\ OpEnd(retStart)
              /\ UNCHANGED <<hostVars, trace>>
         ELSE /\ mongodPort' = agentPort
              /\ UNCHANGED <<hostBoot, canaryColl, fsVars>>
              /\ \E answered \in BOOLEAN, retReconfig \in {0, 1} :
                   IF ~answered
                   THEN /\ trace' = Append(trace, Step("agent", "buildinfo", agentPort))
                        /\ OpRaise
                   ELSE /\ trace' = trace
                               \o <<Step("agent", "buildinfo", agentPort),
                                    Step("agent", "serverStatus", agentPort)>>
                               \o (IF repl_set
                                   THEN <<Step("agent", "reconfig", agentPort)>>
                                   ELSE <<>>)
                        /\ OpEnd(start_mongod_ret(retUpdate, retStart, retReconfig))
    /\ UNCHANGED <<ctlVars, cfgVars, localVars>>

\* A stop_mongod that keeps a failure of mongod.stop().
stop_mongod_ret_Mut(retStop, retWait) == IF retStop # 0 THEN retStop ELSE retWait

\* stop_mongod: "ret, output = mongod.stop()", then
\* "ret = wait_for_mongod_shutdown(mongod)"; shutdown_mongod has the second
\* statement alone.
stop_mongod_ret(retStop, retWait) == retWait

\* stop_mongod: the code of mongod.stop is replaced by wait_for_mongod_shutdown's.
Op_stop_mongod ==
    /\ AgentAt("stop_mongod")
    /\ \E retStop \in (IF hostWindows THEN Codes ELSE {0}),
          retWait \in (IF hostWindows THEN {0, 1} ELSE {0}) :
         /\ mongodPort' \in (IF retWait = 0 THEN {"none"} ELSE {"none", mongodPort})
         /\ OpEnd(stop_mongod_ret(retStop, retWait))
    /\ UNCHANGED <<hostBoot, canaryColl, fsVars>>
    /\ UNCHANGED <<ctlVars, cfgVars, localVars, trace>>

\* shutdown_mongod: the shutdown command, then wait_for_mongod_shutdown. The
\* forked-daemon service of a fresh agent tracks no pid, so its status is
\* "stopped" at once, whether or not the server has gone.
Op_shutdown_mongod ==
    /\ AgentAt("shutdown_mongod")
    /\ \E raised \in BOOLEAN, retWait \in (IF hostWindows THEN {0, 1} ELSE {0}) :
         IF raised
         THEN /\ OpRaise
              /\ UNCHANGED <<mongodPort, trace>>
         ELSE /\ trace' = Append(trace, Step("agent", "shutdown", agentPort))
              /\ mongodPort' \in (IF hostWindows /\ retWait = 0
                                  THEN {"none"} ELSE {"none", mongodPort})
              /\ OpEnd(retWait)
    /\ UNCHANGED <<hostBoot, canaryColl, fsVars>>
    /\ UNCHANGED <<ctlVars, cfgVars, localVars>>

\* A rename that does not look at the code of the rsync.
rsync_renames_Mut(ret, rsync_dir, new_rsync_dir) == rsync_dir # new_rsync_dir

\* "if ret == 0 and rsync_dir != new_rsync_dir: os.rename(...)"
rsync_renames(ret, rsync_dir, new_rsync_dir) == ret = 0 /\ rsync_dir # new_rsync_dir

\* What one rsync_data operation did: the directory it wrote to, the new
\* name, the code of the rsync and the renames it made.
RsyncEntry(ret, renames) ==
    [loop |-> loop_num, dest |-> rsync_dest[1], new |-> rsync_dest[2], ret |-> ret,
     renames |-> renames]

\* rsync_data: rsync the data directory to rsync_dir, then rename rsync_dir to
\* new_rsync_dir. Without --rsyncDest the unpacking of None raises; os.rename
\* raises when the new name is taken by a directory with content.
Op_rsync_data ==
    /\ AgentAt("rsync_data")
    /\ IF rsync_dest = NoRsyncDest
       THEN /\ OpRaise
            /\ UNCHANGED fsVars
       ELSE \E ret \in Codes, created \in BOOLEAN :
              /\ ret = 0 => created
              /\ IF ~rsync_renames(ret, rsync_dest[1], rsync_dest[2])
                 THEN /\ dirs' = IF created THEN dirs \cup {rsync_dest[1]} ELSE dirs
                      /\ rsync_log' = Append(rsync_log, RsyncEntry(ret, <<>>))
                      /\ OpEnd(ret)
                 ELSE IF rsync_dest[2] \in dirs
                 THEN /\ dirs' = dirs \cup {rsync_dest[1]}
                      /\ rsync_log' = Append(rsync_log, RsyncEntry(ret, <<>>))
                      /\ OpRaise
                 ELSE /\ dirs' = (dirs \ {rsync_dest[1]}) \cup {rsync_dest[2]}
                      /\ rsync_log' = Append(rsync_log, RsyncEntry(ret, <<rsync_dest>>))
                      /\ OpEnd(ret)
    /\ UNCHANGED <<ctlVars, hostBoot, mongodPort, canaryColl, cfgVars, localVars, trace>>

Op_seed_docs ==
    /\ AgentAt("seed_docs")
    /\ trace' = Append(trace, Step("agent", "seed_docs", agentPort))
    /\ \E raised \in BOOLEAN : IF raised THEN OpRaise ELSE OpEnd(0)
    /\ UNCHANGED <<ctlVars, hostVars, cfgVars, localVars>>

\* set_fcv: 0 when the command answers ok, err.code on an OperationFailure.
Op_set_fcv ==
    /\ AgentAt("set_fcv")
    /\ trace' = Append(trace, Step("agent", "set_fcv", agentPort))
    /\ \E ret \in Codes : OpEnd(ret)
    /\ UNCHANGED <<ctlVars, hostVars, cfgVars, localVars>>

\* check_disk: on Windows the code of the first failing chkdsk, else 0.
Op_check_disk ==
    /\ AgentAt("check_disk")
    /\ \E ret \in (IF hostWindows THEN Codes ELSE {0}) : OpEnd(ret)
    /\ UNCHANGED <<ctlVars, hostVars, cfgVars, localVars, trace>>

\* An else branch that only logs the unsupported name.
unsupported_ret_Mut(operation) == 0

\* The else branch: "Unsupported remote option specified", ret = 1.
unsupported_ret(operation) == 1

Op_unsupported ==
    /\ agentPc = "run"
    /\ agentIdx <= Len(agentOps)
    /\ agentOps[agentIdx] \notin Operations
    /\ OpEnd(unsupported_ret(agentOps[agentIdx]))
    /\ UNCHANGED <<ctlVars, hostVars, cfgVars, localVars, trace>>

\* The host under test goes down on its own (it "may be power-cycled or
\* crashed at any moment"): it reboots, the server is gone, and an agent that
\* was running never returns.
Host_Crash ==
    /\ pc \notin {"setup", "exited", "agent"}
    /\ hostBoot < MaxBoots
    /\ hostBoot' = hostBoot + 1
    /\ mongodPort' = "none"
    /\ canaryColl' \in AfterCrash(canaryColl)
    /\ UNCHANGED fsVars
    /\ IF agentPc = "run"
       THEN /\ agentPc' = "done"
            /\ \E code \in NonZero, err \in BOOLEAN :
                 /\ shellRet' = code
                 /\ shellOut' = [shellOut EXCEPT !.ssh_error = err]
            /\ UNCHANGED <<agentOps, agentIdx, agentPort, rsync_dest, executed, opRets, agentRaised>>
       ELSE UNCHANGED agentVars
    /\ UNCHANGED <<ctlVars, cfgVars, localVars, trace>>

(***************************************************************************)
(* Specifications.                                                         *)
(***************************************************************************)
\* --rsyncDest options a stand-alone agent can be started with: none, the
\* same directory twice, and the directories of two consecutive loops.
RsyncDests ==
    {NoRsyncDest,
     <<first_backup_path(BACKUP_PATH_BEFORE), first_backup_path(BACKUP_PATH_BEFORE)>>,
     <<first_backup_path(BACKUP_PATH_BEFORE),
       get_backup_path(first_backup_path(BACKUP_PATH_BEFORE), 2)>>}

\* Batches a stand-alone agent can be started with.
Batches == UNION {[1..n -> OperationNames] : n \in 0..MaxOps}

InitCommon ==
    /\ loop_num = 0
    /\ canary_doc = {}
    /\ orig_canary_doc = {}
    /\ validated_doc = {}
    /\ boot_time_after_recovery = BootTimeNotFound
    /\ boot_time_after_crash = BootTimeNotFound
    /\ EXIT_YML = [exit_code |-> 0, ec2_ssh_failure |-> "absent"]
    /\ REPORT_JSON_SUCCESS = FALSE
    /\ report_status = "fail"
    /\ exit_status = -1
    /\ now = 1
    /\ local_ops = 0
    /\ canary_log = <<>>
    /\ trace = <<>>
    /\ agentIdx = 1
    /\ executed = <<>>
    /\ opRets = <<>>
    /\ shellRet = 0
    /\ shellOut = NoOutput
    /\ agentRaised = FALSE
    /\ hostBoot = 1
    /\ mongodPort = "none"
    /\ canaryColl = {}
    /\ dirs = {}
    /\ rsync_log = <<>>
    /\ backup_path_before = first_backup_path(BACKUP_PATH_BEFORE)
    /\ backup_path_after = first_backup_path(BACKUP_PATH_AFTER)

\* No stop() call is in progress.
\* No method of the service has been called.
NoCall == [method |-> "none", status |-> "none", api |-> <<>>, err |-> -1]

\* No function with a loop has been called.
InitRetryIdle ==
    /\ retry_pc = "idle"
    /\ retry_fn = "none"
    /\ retry_runs = <<>>
    /\ retry_ret = -1
    /\ retry_start = 0
    /\ retry_now = 0
    /\ retry_timeout = 0
    /\ retry_op_ret = -1

\* A service object nothing was called on.
InitServiceIdle ==
    /\ InitRetryIdle
    /\ svcPc = "idle"
    /\ svcState = "running"
    /\ svc_pids = {}
    /\ svc_timeout = 0
    /\ svc_start = 0
    /\ svc_now = 0
    /\ svc_status = "running"
    /\ svc_ret = -1
    /\ svc_stop_err = -1
    /\ svc_query_err = <<>>
    /\ svc_call = NoCall
    /\ posix_pids = {}
    /\ mongod_procs = {}
    /\ lock_file = "absent"
    /\ posix_log = <<>>


Pids == 1..MaxPids

\* No process has the pid.
NoProc == [ctime |-> 0, ppid |-> 0]

\* Nothing is spawned or registered.
InitProcessesIdle ==
    /\ localPc = "running"
    /\ local_exit_path = <<>>
    /\ os_procs = [p \in Pids |-> NoProc]
    /\ os_clock = 1
    /\ PROC_LIST = <<>>
    /\ killed = {}
    /\ warn_log = <<>>
    /\ kill_calls = <<>>
    /\ FILE_MAP = {}
    /\ DIR_LIST = <<>>
    /\ fs_files = {}
    /\ fs_dirs = {}
    /\ file_seq = 1
    /\ unremovable = {}
    /\ iter_pc = "head"
    /\ local_loops = 0
    /\ temp_client_files = <<>>
    /\ client_config_files = {}
    /\ ssh_tunnel_proc = [pid |-> 1, create_time |-> 0]
    /\ clients_started = 0

InitLocalIdle == InitServiceIdle /\ InitProcessesIdle

\* The controller: main() without --remoteOperation.
Init ==
    /\ InitCommon
    /\ InitLocalIdle
    /\ pc = "setup"
    /\ \E configured \in 1..MaxLoops, controllerWindows \in BOOLEAN :
         test_loops = IF controllerWindows /\ configured > WindowsMaxLoops
                      THEN WindowsMaxLoops ELSE configured
    /\ crash_method \in CrashMethods
    /\ agentPc = "idle"
    /\ agentOps = <<>>
    /\ agentPort = "default"
    /\ rsync_dest = NoRsyncDest
    /\ hostWindows \in BOOLEAN
    /\ repl_set \in BOOLEAN
    /\ fcv_set \in BOOLEAN
    /\ logsInfo \in BOOLEAN

AgentOps ==
    \/ Agent_Begin
    \/ Agent_End
    \/ Op_noop
    \/ Op_crash_server
    \/ Op_kill_mongod
    \/ Op_install_mongod
    \/ Op_start_mongod
    \/ Op_shutdown_mongod
    \/ Op_rsync_data
    \/ Op_seed_docs
    \/ Op_set_fcv
    \/ Op_check_disk

Next ==
    \/ Main_Setup
    \/ Main_AfterInstall
    \/ Main_StartSecret
    \/ Main_SetupTunnel
    \/ Main_ValidateCanary
    \/ Main_ValidateCollections
    \/ Main_ShutdownSecret
    \/ Main_StartStandard
    \/ Main_StartClients
    \/ Main_CrashWait
    \/ Main_InsertCanary
    \/ Main_DispatchCrash
    \/ Main_Cleanup
    \/ Main_Reconnect
    \/ Main_BootCheck
    \/ Main_AfterCheckDisk
    \/ Shell_TransportFail
    \/ Host_Crash
    \/ AgentOps

Spec == Init /\ [][Next]_vars

\* Iteration counts of a configuration file that are not positive, and one
\* that is: task_config.test_loops is used as it is read.
LoopCounts == (0 - 1)..1

\* The controller with any of these iteration counts on a host whose
\* configuration is fixed; main() counts loops up to MaxLoops + 1 here.
InitLoops ==
    /\ InitCommon
    /\ InitLocalIdle
    /\ pc = "setup"
    /\ test_loops \in LoopCounts
    /\ crash_method \in {"internal", "kill"}
    /\ agentPc = "idle"
    /\ agentOps = <<>>
    /\ agentPort = "default"
    /\ rsync_dest = NoRsyncDest
    /\ hostWindows = FALSE
    /\ repl_set = FALSE
    /\ fcv_set = TRUE
    /\ logsInfo = TRUE

\* main() is one thread that goes on whenever it can, and every dispatch
\* comes back.
SpecLoops == InitLoops /\ [][Next]_vars /\ WF_vars(Next)

\* The agent alone: main() with --remoteOperation and any batch.
InitAgent ==
    /\ InitCommon
    /\ InitLocalIdle
    /\ pc = "agent"
    /\ test_loops = 1
    /\ crash_method = "internal"
    /\ agentPc = "pending"
    /\ agentOps \in Batches
    /\ agentPort \in {"secret", "standard"}
    /\ rsync_dest \in RsyncDests
    /\ hostWindows \in BOOLEAN
    /\ repl_set \in BOOLEAN
    /\ fcv_set = TRUE
    /\ logsInfo = TRUE

NextAgent ==
    \/ AgentOps
    \/ Op_stop_mongod
    \/ Op_unsupported
    \/ Main_RemoteExit

SpecAgent == InitAgent /\ [][NextAgent]_vars

(***************************************************************************)
(* WindowsService.stop(timeout), one step per turn of its polling loop.    *)
(***************************************************************************)
\* WindowsService._states: the native states that have a name.
KnownStates == {"continue pending", "pause pending", "paused", "running", "start pending",
                  "stopped", "stop pending"}

\* What the OS service table can hold: a named state, a native state with no
\* name in _states, or no entry for the service.
OsServiceStates == {"running", "stop pending", "stopped", "other", "absent"}

\* pywintypes.error numbers: ERROR_BROKEN_PIPE, ERROR_ACCESS_DENIED,
\* ERROR_SERVICE_DOES_NOT_EXIST.
WinErrors == {ERROR_BROKEN_PIPE, 5, 1060}

\* The timeouts stop() is called with: none, and a deadline.
Timeouts == {0, MaxTimeout}

\* The errors a QueryServiceStatus can raise for a service in state svc_state.
QueryErrors(svc_state) ==
    IF svc_state = "absent" THEN {1060} ELSE {0, ERROR_BROKEN_PIPE, 5}

\* WindowsService.status(): the name of the native state; every error of the
\* query is reported as "not installed".
WindowsService_status(qerr, svc_state) ==
    IF qerr # 0 THEN "not installed"
    ELSE IF svc_state \in KnownStates THEN svc_state
    ELSE "unknown"

\* The except branch that returns every error as its number.
stop_error_ret_Mut(err) == err

\* The except branch of stop(): the code for an error StopService raised.
stop_error_ret(err) == IF err = ERROR_BROKEN_PIPE THEN 0 ELSE err

\* The statement after the while loop: ret is assigned whatever the loop left.
after_loop(ret) == 0

\* A test that takes only a running service for an installed one.
in_states_Running_Mut(status) == status = "running"

\* A test that takes every service that answers the query for a known one.
in_states_Answered_Mut(status) == status # "not installed"

\* "self.status() in self._states.values()"
in_states(status) == status \in KnownStates

\* The code of a method whose request to the OS raised `err` (0: none):
\* "ret = 0", or "ret = err.winerror" in the except branch.
request_ret(err) == err

\* A method other than stop() left at its check of the status, without a
\* request to the OS.
Refused(method, status) ==
    /\ svc_call' = [method |-> method, status |-> status, api |-> <<>>, err |-> -1]
    /\ svc_ret' = 1
    /\ svcPc' = "done"

\* A method other than stop() that made the request `api` to the OS, which
\* raised `err`.
Requested(method, status, api, err) ==
    /\ svc_call' = [method |-> method, status |-> status, api |-> <<api>>, err |-> err]
    /\ svc_ret' = request_ret(err)
    /\ svcPc' = "done"

\* The variables of stop() and of main that the other methods leave alone.
OtherMethod ==
    /\ UNCHANGED <<svc_timeout, svc_start, svc_now, svc_status, svc_stop_err, svc_query_err>>
    /\ UNCHANGED <<ctlVars, agentVars, hostVars, cfgVars, posixVars, procVars, iterVars, retryVars, trace>>

\* WindowsService.create(): InstallService unless the status is a known
\* state. The OS installs only a service it does not have.
WindowsService_create ==
    /\ svcPc = "idle" /\ hostWindows
    /\ \E qerr \in QueryErrors(svcState) :
         LET status == WindowsService_status(qerr, svcState)
         IN IF in_states(status)
            THEN Refused("create", status) /\ UNCHANGED svcState
            ELSE \E err \in (IF svcState = "absent" THEN {0} ELSE {}) \cup WinErrors :
                   /\ Requested("create", status, "InstallService", err)
                   /\ svcState' = IF err = 0 THEN "stopped" ELSE svcState
    /\ UNCHANGED svc_pids
    /\ OtherMethod

\* WindowsService.update(): ChangeServiceConfig when the status is a known state.
WindowsService_update ==
    /\ svcPc = "idle" /\ hostWindows
    /\ \E qerr \in QueryErrors(svcState) :
         LET status == WindowsService_status(qerr, svcState)
         IN IF ~in_states(status)
            THEN Refused("update", status)
            ELSE \E err \in {0} \cup WinErrors :
                   Requested("update", status, "ChangeServiceConfig", err)
    /\ UNCHANGED <<svcState, svc_pids>>
    /\ OtherMethod

\* WindowsService.delete(): RemoveService when the status is a known state.
WindowsService_delete ==
    /\ svcPc = "idle" /\ hostWindows
    /\ \E qerr \in QueryErrors(svcState) :
         LET status == WindowsService_status(qerr, svcState)
         IN IF ~in_states(status)
            THEN Refused("delete", status) /\ UNCHANGED svcState
            ELSE \E err \in {0} \cup WinErrors :
                   /\ Requested("delete", status, "RemoveService", err)
                   /\ svcState' = IF err = 0 THEN "absent" ELSE svcState
    /\ UNCHANGED svc_pids
    /\ OtherMethod

\* WindowsService.start(): StartService when the status is a known state, then
\* the pids of the processes named bin_name, whatever the request gave.
WindowsService_start ==
    /\ svcPc = "idle" /\ hostWindows
    /\ \E qerr \in QueryErrors(svcState) :
         LET status == WindowsService_status(qerr, svcState)
         IN IF ~in_states(status)
            THEN Refused("start", status) /\ UNCHANGED <<svcState, svc_pids>>
            ELSE \E err \in {0} \cup WinErrors :
                   /\ Requested("start", status, "StartService", err)
                   /\ svcState' = IF err = 0 THEN "running" ELSE svcState
                   /\ svc_pids' \in {{}, {1}}
    /\ OtherMethod

\* stop() up to the first turn of the loop: the check of the status, the stop
\* request, start and the first status.
WindowsService_stop ==
    /\ svcPc = "idle" /\ hostWindows
    /\ svc_pids' = {}
    /\ \E timeout \in Timeouts, qerr \in QueryErrors(svcState) :
         /\ svc_timeout' = timeout
         /\ IF ~in_states(WindowsService_status(qerr, svcState))
            THEN /\ svc_call' = [method |-> "stop",
                                 status |-> WindowsService_status(qerr, svcState),
                                 api |-> <<>>, err |-> -1]
                 /\ svc_ret' = 1
                 /\ svcPc' = "returned"
                 /\ svc_status' = WindowsService_status(qerr, svcState)
                 /\ svc_query_err' = <<qerr>>
                 /\ UNCHANGED <<svcState, svc_start, svc_now, svc_stop_err>>
            ELSE \E err \in {0} \cup WinErrors :
                   /\ svc_stop_err' = err
                   /\ svc_call' = [method |-> "stop",
                                   status |-> WindowsService_status(qerr, svcState),
                                   api |-> <<"StopService">>, err |-> err]
                   /\ IF err # 0
                      THEN /\ svc_ret' = stop_error_ret(err)
                           /\ svcPc' = "returned"
                           /\ svc_status' = WindowsService_status(qerr, svcState)
                           /\ svc_query_err' = <<qerr>>
                           /\ UNCHANGED <<svcState, svc_start, svc_now>>
                      ELSE /\ svcState' \in {"stop pending", "stopped"}
                           /\ svc_start' = svc_now
                           /\ svc_now' = svc_now
                           /\ \E qerr2 \in QueryErrors(svcState') :
                                /\ svc_status' = WindowsService_status(qerr2, svcState')
                                /\ svc_query_err' = <<qerr, qerr2>>
                           /\ svcPc' = "polling"
                           /\ svc_ret' = -1
    /\ UNCHANGED <<ctlVars, agentVars, hostVars, cfgVars, posixVars, procVars, iterVars, retryVars, trace>>

\* One turn of the while loop, and what follows the loop when it ends.
WindowsService_stop_poll ==
    /\ svcPc = "polling"
    /\ IF svc_status # "stop pending"
       THEN /\ svc_ret' = after_loop(svc_ret)
            /\ svcPc' = "returned"
            /\ UNCHANGED <<svc_now, svc_status, svc_query_err>>
       ELSE IF svc_now - svc_start >= svc_timeout
       THEN /\ svc_ret' = after_loop(1)
            /\ svcPc' = "returned"
            /\ UNCHANGED <<svc_now, svc_status, svc_query_err>>
       ELSE /\ \E late \in {0, 1} : svc_now' = svc_now + StopPollSecs + late
            /\ \E qerr \in QueryErrors(svcState) :
                 /\ svc_status' = WindowsService_status(qerr, svcState)
                 /\ svc_query_err' = Append(svc_query_err, qerr)
            /\ UNCHANGED <<svc_ret, svcPc>>
    /\ UNCHANGED <<svcState, svc_pids, svc_timeout, svc_start, svc_stop_err, svc_call>>
    /\ UNCHANGED <<ctlVars, agentVars, hostVars, cfgVars, posixVars, procVars, iterVars, retryVars, trace>>

\* The service finishes stopping.
Service_Stopped ==
    /\ svcPc = "polling"
    /\ svcState = "stop pending"
    /\ svcState' = "stopped"
    /\ UNCHANGED <<svcPc, svc_pids, svc_timeout, svc_start, svc_now, svc_status, svc_ret,
                   svc_stop_err, svc_query_err, svc_call>>
    /\ UNCHANGED <<ctlVars, agentVars, hostVars, cfgVars, posixVars, procVars, iterVars, retryVars, trace>>

(***************************************************************************)
(* PosixService: a forked mongod, its lock file and the pids kept of it.   *)
(***************************************************************************)
\* What os.path.exists and os.stat can find at db_path/mongod.lock.
LockStates == {"absent", "empty", "nonempty"}

\* The pids a mongod can get.
MongodPids == {1, 2}

\* A status() that takes a lock file of size zero for a running server.
PosixService_status_Empty_Mut(pids, at_exists, at_stat) ==
    IF pids = {} THEN [status |-> "stopped", pids |-> pids]
    ELSE IF at_exists = "absent" THEN [status |-> "stopped", pids |-> {}]
    ELSE [status |-> "running", pids |-> pids]

\* A status() whose except branch reports the server stopped.
PosixService_status_Race_Mut(pids, at_exists, at_stat) ==
    IF pids = {} THEN [status |-> "stopped", pids |-> pids]
    ELSE IF at_exists = "absent" \/ at_stat # "nonempty" THEN [status |-> "stopped", pids |-> {}]
    ELSE [status |-> "running", pids |-> pids]

\* PosixService.status() with self.pids = pids, on a lock file that is
\* `at_exists` at os.path.exists and `at_stat` at os.stat (which raises OSError
\* on an absent file): what it returns and what it leaves in self.pids.
PosixService_status(pids, at_exists, at_stat) ==
    IF pids = {} THEN [status |-> "stopped", pids |-> pids]
    ELSE IF at_exists = "absent" THEN [status |-> "stopped", pids |-> {}]
    ELSE IF at_stat = "absent" THEN [status |-> "running", pids |-> pids]
    ELSE IF at_stat = "empty" THEN [status |-> "stopped", pids |-> {}]
    ELSE [status |-> "running", pids |-> pids]

\* A stop() that kills and keeps the pids.
PosixService_stop_Mut(pids, procs) == [pids |-> pids, procs |-> {}, ret |-> 0]

\* PosixService.stop(timeout): ProcessControl(name=bin_name).kill() kills
\* every process of that name, then "self.pids = []" and "return 0, None".
PosixService_stop(pids, procs) == [pids |-> {}, procs |-> {}, ret |-> 0]

\* One call in posix_log.
Call(method, ret, status, seen, before, after) ==
    [method |-> method, ret |-> ret, status |-> status, seen |-> seen,
     pids_before |-> before, pids_after |-> after]

PosixCall == ~hostWindows /\ Len(posix_log) < MaxCalls

PosixOthers ==
    UNCHANGED <<ctlVars, agentVars, hostVars, cfgVars, svcVars, procVars, iterVars, retryVars, trace>>

\* PosixService.create(), update() and delete(): "return 0, None".
PosixService_create ==
    /\ PosixCall
    /\ \E method \in {"create", "update", "delete"} :
         posix_log' = Append(posix_log, Call(method, 0, "none", <<>>, posix_pids, posix_pids))
    /\ UNCHANGED <<posix_pids, mongod_procs, lock_file>>
    /\ PosixOthers

\* PosixService.start(): execute_cmd of the mongod command line; when it
\* returns 0, self.pids are the pids of the processes named bin_name (the
\* forked mongod, unless it is gone already).
PosixService_start ==
    /\ PosixCall
    /\ \E ret \in Codes :
         /\ IF ret = 0
            THEN /\ mongod_procs' \in
                      {mongod_procs} \cup {mongod_procs \cup {pid} : pid \in MongodPids}
                 /\ posix_pids' = mongod_procs'
            ELSE UNCHANGED <<mongod_procs, posix_pids>>
         /\ posix_log' = Append(posix_log,
                                Call("start", ret, "none", <<>>, posix_pids, posix_pids'))
    /\ UNCHANGED lock_file
    /\ PosixOthers

\* PosixService.stop(timeout)
PosixService_stop_call ==
    /\ PosixCall
    /\ \E timeout \in Timeouts :
         LET out == PosixService_stop(posix_pids, mongod_procs)
         IN /\ posix_pids' = out.pids
            /\ mongod_procs' = out.procs
            /\ posix_log' = Append(posix_log,
                                   Call("stop", out.ret, "none", <<>>, posix_pids, out.pids))
    /\ UNCHANGED lock_file
    /\ PosixOthers

\* PosixService.status(): the lock file is looked at only with pids, and can
\* be removed between os.path.exists and os.stat.
PosixService_status_call ==
    /\ PosixCall
    /\ \E at_stat \in {lock_file} \cup
                      (IF posix_pids # {} /\ lock_file # "absent" THEN {"absent"} ELSE {}) :
         LET out == PosixService_status(posix_pids, lock_file, at_stat)
             seen == IF posix_pids = {} THEN <<>>
                     ELSE IF lock_file = "absent" THEN <<lock_file>>
                     ELSE <<lock_file, at_stat>>
         IN /\ posix_pids' = out.pids
            /\ lock_file' = at_stat
            /\ posix_log' = Append(posix_log,
                                   Call("status", 0, out.status, seen, posix_pids, out.pids))
    /\ UNCHANGED mongod_procs
    /\ PosixOthers

\* mongod writes, empties or removes its lock file between two calls.
Lock_Changes ==
    /\ PosixCall
    /\ lock_file' \in LockStates \ {lock_file}
    /\ UNCHANGED <<posix_pids, mongod_procs, posix_log>>
    /\ PosixOthers

\* A mongod ends by itself.
Mongod_Exits ==
    /\ PosixCall
    /\ \E pid \in mongod_procs : mongod_procs' = mongod_procs \ {pid}
    /\ UNCHANGED <<posix_pids, lock_file, posix_log>>
    /\ PosixOthers

\* An agent about to call a method of its service: a Windows service in any
\* state, or a forked mongod with any lock file.
InitService ==
    /\ InitCommon
    /\ pc = "agent"
    /\ test_loops = 1
    /\ crash_method = "internal"
    /\ agentPc = "idle"
    /\ agentOps = <<>>
    /\ agentPort = "default"
    /\ rsync_dest = NoRsyncDest
    /\ hostWindows \in BOOLEAN
    /\ repl_set = FALSE
    /\ fcv_set = FALSE
    /\ logsInfo = TRUE
    /\ svcPc = "idle"
    /\ svcState \in (IF hostWindows THEN OsServiceStates ELSE {"running"})
    /\ svc_pids \in (IF hostWindows THEN {{}, {1}} ELSE {{}})
    /\ svc_timeout = 0
    /\ svc_start = 0
    /\ svc_now \in (IF hostWindows THEN {0, 1} ELSE {0})
    /\ svc_status = "running"
    /\ svc_ret = -1
    /\ svc_stop_err = -1
    /\ svc_query_err = <<>>
    /\ svc_call = NoCall
    /\ posix_pids = {}
    /\ mongod_procs = {}
    /\ lock_file \in (IF hostWindows THEN {"absent"} ELSE LockStates)
    /\ posix_log = <<>>
    /\ InitRetryIdle
    /\ InitProcessesIdle

NextService ==
    \/ WindowsService_create
    \/ WindowsService_update
    \/ WindowsService_delete
    \/ WindowsService_start
    \/ WindowsService_stop
    \/ WindowsService_stop_poll
    \/ Service_Stopped
    \/ PosixService_create
    \/ PosixService_start
    \/ PosixService_stop_call
    \/ PosixService_status_call
    \/ Lock_Changes
    \/ Mongod_Exits

SpecService == InitService /\ [][NextService]_vars

(***************************************************************************)
(* Processes, NamedTempFile, kill_process and the exit paths of a process  *)
(* that spawns clients.                                                    *)
(***************************************************************************)
\* The directories NamedTempFile.create is given; "" is no directory.
Dirs == {"tmp", "tmp2"}
NoDir == ""

\* The registries and what they act on, as one value the operations transform.
LocalState ==
    [os |-> os_procs, list |-> PROC_LIST, killed |-> killed, warns |-> warn_log,
     calls |-> kill_calls, files |-> FILE_MAP, dirs |-> DIR_LIST,
     fsf |-> fs_files, fsd |-> fs_dirs]

\* A check of the pid alone.
is_running_Mut(proc, os) == os[proc.pid].ctime # 0

\* psutil.Process.is_running(): the pid exists and has the creation time the
\* instance cached when start_cmd() spawned it.
is_running(proc, os) == os[proc.pid].ctime = proc.create_time

RECURSIVE Descendants(_, _, _)
Descendants(pidSet, os, depth) ==
    IF depth = 0 THEN pidSet
    ELSE Descendants(pidSet \cup {p \in Pids : os[p].ctime # 0 /\ os[p].ppid \in pidSet},
                     os, depth - 1)

\* parent.children(recursive=True)
children(parent, os) == Descendants({parent.pid}, os, MaxPids) \ {parent.pid}

\* kill_process(parent, kill_children=True): the state it leaves, with the
\* call added to the log as what it sent, whether it warned and its code.
kill_process(parent, st) ==
    IF ~is_running(parent, st.os)
    THEN [st EXCEPT !.warns = Append(@, parent.pid),
                    !.calls = Append(@, [proc |-> parent, sent |-> {}, warned |-> TRUE,
                                         ret |-> 0])]
    ELSE LET procs == children(parent, st.os) \cup {parent.pid}
             sent == {[pid |-> p, create_time |-> st.os[p].ctime] : p \in procs}
         IN [st EXCEPT !.os = [p \in Pids |-> IF p \in procs THEN NoProc ELSE @[p]],
                       !.killed = @ \cup sent,
                       !.calls = Append(@, [proc |-> parent, sent |-> sent,
                                            warned |-> FALSE, ret |-> 0])]

\* list.remove(x): the list without the first x.
RECURSIVE remove(_, _)
remove(list, x) ==
    IF list = <<>> THEN <<>>
    ELSE IF Head(list) = x THEN Tail(list)
    ELSE <<Head(list)>> \o remove(Tail(list), x)

\* Processes.kill(proc)
Processes_kill(proc, st) ==
    LET after == kill_process(proc, st)
    IN [after EXCEPT !.list = remove(@, proc)]

RECURSIVE kill_each(_, _)
kill_each(procs, st) ==
    IF procs = <<>> THEN st
    ELSE kill_each(Tail(procs), Processes_kill(Head(procs), st))

\* A loop over _PROC_LIST itself, whose elements move up as they are removed.
RECURSIVE kill_live(_, _)
kill_live(i, st) ==
    IF i > Len(st.list) THEN st
    ELSE kill_live(i + 1, Processes_kill(st.list[i], st))

kill_all_Mut(st) == kill_live(1, st)

\* Processes.kill_all(): a loop over a copy of _PROC_LIST.
kill_all(st) == kill_each(st.list, st)

\* NamedTempFile.create(directory=directory), the new file being `name`.
NamedTempFile_create(directory, name, st) ==
    LET made == directory # NoDir /\ directory \notin st.fsd
    IN [st EXCEPT !.fsd = IF made THEN @ \cup {directory} ELSE @,
                  !.dirs = IF made THEN Append(@, directory) ELSE @,
                  !.fsf = @ \cup {name},
                  !.files = @ \cup {name}]

\* A directory as a path: the file of no number.
DirPath(directory) == [dir |-> directory, id |-> 0]

\* NamedTempFile.delete(name) of a known file; os.remove fails on the paths of
\* `failing`.
delete(name, st, failing) ==
    IF name \notin st.fsf THEN [st EXCEPT !.files = @ \ {name}]
    ELSE IF name \in failing THEN st
    ELSE [st EXCEPT !.fsf = @ \ {name}, !.files = @ \ {name}]

\* NamedTempFile.delete_dir(directory) of a known directory; shutil.rmtree
\* fails on the paths of `failing`.
delete_dir(directory, st, failing) ==
    IF directory \notin st.fsd THEN [st EXCEPT !.dirs = remove(@, directory)]
    ELSE IF DirPath(directory) \in failing THEN st
    ELSE [st EXCEPT !.fsd = @ \ {directory},
                    !.fsf = {f \in @ : f.dir # directory},
                    !.dirs = remove(@, directory)]

RECURSIVE delete_files(_, _, _)
delete_files(names, st, failing) ==
    IF names = {} THEN st
    ELSE LET name == CHOOSE n \in names : TRUE
         IN delete_files(names \ {name}, delete(name, st, failing), failing)

\* "for directory in cls._DIR_LIST": the loop is at index i of the list as it
\* is now.
RECURSIVE delete_dirs(_, _, _)
delete_dirs(i, st, failing) ==
    IF i > Len(st.dirs) THEN st
    ELSE delete_dirs(i + 1, delete_dir(st.dirs[i], st, failing), failing)

\* NamedTempFile.delete_all(): a loop over a copy of the names of _FILE_MAP,
\* then a loop over _DIR_LIST.
delete_all(st, failing) == delete_dirs(1, delete_files(st.files, st, failing), failing)

\* exit_handler(), from "Killing processes" on.
exit_cleanup(st, failing) == delete_all(kill_all(st), failing)

\* The variables take the values of `st`.
SetLocal(st) ==
    /\ os_procs' = st.os
    /\ PROC_LIST' = st.list
    /\ killed' = st.killed
    /\ warn_log' = st.warns
    /\ kill_calls' = st.calls
    /\ FILE_MAP' = st.files
    /\ DIR_LIST' = st.dirs
    /\ fs_files' = st.fsf
    /\ fs_dirs' = st.fsd

LocalRunning == localPc = "running"

OthersUnchanged ==
    UNCHANGED <<ctlVars, agentVars, hostVars, cfgVars, svcVars, posixVars, retryVars, trace>>

\* The name tempfile.NamedTemporaryFile gives a new file of `directory`.
NewName(directory) == [dir |-> directory, id |-> file_seq]

\* The name tempfile.NamedTemporaryFile gives the k-th next file of `directory`.
NewNameAt(directory, k) == [dir |-> directory, id |-> file_seq + k]

\* for temp_file in temp_client_files: NamedTempFile.delete(temp_file)
RECURSIVE delete_each(_, _, _)
delete_each(names, st, failing) ==
    IF names = <<>> THEN st
    ELSE delete_each(Tail(names), delete(Head(names), st, failing), failing)

\* NamedTempFile.create for any directory or none, before the first iteration.
Main_NamedTempFile_create ==
    /\ LocalRunning
    /\ iter_pc = "head"
    /\ local_loops = 0
    /\ file_seq <= MaxFiles
    /\ \E directory \in Dirs \cup {NoDir} :
         SetLocal(NamedTempFile_create(directory, NewName(directory), LocalState))
    /\ file_seq' = file_seq + 1
    /\ UNCHANGED <<localPc, local_exit_path, os_clock, unremovable, iterVars>>
    /\ OthersUnchanged

\* main, top of an iteration: "temp_client_files = []", then setup_ssh_tunnel,
\* whose start_cmd(ssh_tunnel_cmd) spawns the tunnel outside of Processes.
\* main has made no temporary file when its first iteration starts, and no
\* process runs yet: the pids being interchangeable, the first tunnel gets pid 1.
Main_setup_ssh_tunnel ==
    /\ LocalRunning
    /\ iter_pc = "head"
    /\ local_loops = 0 => file_seq = 1
    /\ local_loops < MaxLocalLoops
    /\ os_clock <= MaxSpawns
    /\ \E pid \in Pids :
         /\ os_procs[pid] = NoProc
         /\ local_loops = 0 => pid = 1
         /\ os_procs' = [os_procs EXCEPT ![pid] = [ctime |-> os_clock, ppid |-> 0]]
         /\ ssh_tunnel_proc' = [pid |-> pid, create_time |-> os_clock]
    /\ os_clock' = os_clock + 1
    /\ temp_client_files' = <<>>
    /\ client_config_files' = {}
    /\ clients_started' = 0
    /\ iter_pc' = "validate"
    /\ UNCHANGED <<localPc, local_exit_path, PROC_LIST, killed, warn_log, kill_calls,
                   FILE_MAP, DIR_LIST, fs_files, fs_dirs, file_seq, unremovable, local_loops>>
    /\ OthersUnchanged

\* main, local collection validation: new_config_file is created and appended
\* to temp_client_files; resmoke_client waits for execute_cmd(use_file=True),
\* which writes the commands to a temporary file and os.remove()s it at the
\* end without taking it out of the registry.
Main_validation_config ==
    /\ LocalRunning
    /\ iter_pc = "validate"
    /\ LET new_config_file == NewNameAt("tmp", 0)
           temp_file == NewNameAt("tmp", 1)
           withConfig == NamedTempFile_create("tmp", new_config_file, LocalState)
           withScript == NamedTempFile_create("tmp", temp_file, withConfig)
       IN /\ SetLocal([withScript EXCEPT !.fsf = @ \ {temp_file}])
          /\ temp_client_files' = Append(temp_client_files, new_config_file)
          /\ client_config_files' = client_config_files \cup {new_config_file}
    /\ file_seq' = file_seq + 2
    /\ iter_pc' = "clients"
    /\ UNCHANGED <<localPc, local_exit_path, os_clock, unremovable, local_loops,
                   ssh_tunnel_proc, clients_started>>
    /\ OthersUnchanged

\* main, one turn of "for i in range(num_crud_clients)" or "for i in
\* range(num_fsm_clients)": the config file of the client is created, then
\* resmoke_client(no_wait=True) calls Processes.create(cmds), that is start_cmd
\* with use_file=True: the commands go to a temporary file of "tmp" and
\* psutil.Popen spawns the process.
Main_Processes_create ==
    /\ LocalRunning
    /\ iter_pc = "clients"
    /\ clients_started < NumClients
    /\ os_clock <= MaxSpawns
    /\ \E pid \in Pids :
         /\ os_procs[pid] = NoProc
         /\ LET config_file == NewNameAt("tmp", 0)
                temp_file == NewNameAt("tmp", 1)
                withConfig == NamedTempFile_create("tmp", config_file, LocalState)
                withScript == NamedTempFile_create("tmp", temp_file, withConfig)
                proc == [pid |-> pid, create_time |-> os_clock]
            IN /\ SetLocal([withScript EXCEPT
                              !.os = [@ EXCEPT ![pid] = [ctime |-> os_clock, ppid |-> 0]],
                              !.list = Append(@, proc)])
               /\ client_config_files' = client_config_files \cup {config_file}
    /\ file_seq' = file_seq + 2
    /\ os_clock' = os_clock + 1
    /\ clients_started' = clients_started + 1
    /\ UNCHANGED <<localPc, local_exit_path, unremovable, iter_pc, local_loops,
                   temp_client_files, ssh_tunnel_proc>>
    /\ OthersUnchanged

\* main, end of an iteration: Processes.kill_all(), NamedTempFile.delete of
\* every file of temp_client_files, kill_process(ssh_tunnel_proc).
Main_Processes_kill_all ==
    /\ LocalRunning
    /\ iter_pc = "clients"
    /\ clients_started = NumClients
    /\ SetLocal(kill_process(ssh_tunnel_proc,
                             delete_each(temp_client_files, kill_all(LocalState),
                                         unremovable)))
    /\ iter_pc' = "head"
    /\ local_loops' = local_loops + 1
    /\ UNCHANGED <<localPc, local_exit_path, os_clock, file_seq, unremovable,
                   temp_client_files, client_config_files, ssh_tunnel_proc, clients_started>>
    /\ OthersUnchanged

\* A process ends by itself while main tracks processes; its children stay,
\* with no parent.
Proc_Exits ==
    /\ LocalRunning
    /\ iter_pc # "head"
    /\ \E pid \in Pids :
         /\ os_procs[pid] # NoProc
         /\ os_procs' = [p \in Pids |->
                           IF p = pid THEN NoProc
                           ELSE IF os_procs[p].ppid = pid
                           THEN [os_procs[p] EXCEPT !.ppid = 0]
                           ELSE os_procs[p]]
    /\ UNCHANGED <<localPc, local_exit_path, PROC_LIST, killed, warn_log, kill_calls,
                   FILE_MAP, DIR_LIST, fs_files, fs_dirs, os_clock, file_seq, unremovable, iterVars>>
    /\ OthersUnchanged

\* The OS starts a process of its own on a free pid: a child of a running
\* process, or a process of another program.
Os_Spawn ==
    /\ LocalRunning
    /\ iter_pc # "head"
    /\ os_clock <= MaxSpawns
    /\ \E pid \in Pids, ppid \in {0} \cup {p \in Pids : os_procs[p] # NoProc} :
         /\ os_procs[pid] = NoProc
         /\ os_procs' = [os_procs EXCEPT ![pid] = [ctime |-> os_clock, ppid |-> ppid]]
    /\ os_clock' = os_clock + 1
    /\ UNCHANGED <<localPc, local_exit_path, PROC_LIST, killed, warn_log, kill_calls,
                   FILE_MAP, DIR_LIST, fs_files, fs_dirs, file_seq, unremovable, iterVars>>
    /\ OthersUnchanged

\* The process ends by `path` and atexit runs exit_handler.
ExitBy(path) ==
    /\ LocalRunning
    /\ localPc' = "exited"
    /\ local_exit_path' = Append(path, PROC_LIST)
    /\ SetLocal(exit_cleanup(LocalState, unremovable))
    /\ UNCHANGED <<os_clock, file_seq, unremovable, iterVars>>
    /\ OthersUnchanged

\* local_exit(code): sys.exit(code)
Exit_local_exit == \E code \in Codes : ExitBy(<<"local_exit", code>>)

\* An exception nothing catches ends the interpreter with code 1.
Exit_exception == ExitBy(<<"exception", 1>>)

\* A handler that ends the process as a successful run does.
dump_stacks_and_exit_Mut(windows) == <<IF windows THEN "event" ELSE "SIGUSR1", 0>>

\* dump_stacks_and_exit, after the stacks are logged: exit_handler() and
\* os._exit(1) on Windows, sys.exit(1) elsewhere.
dump_stacks_and_exit(windows) == <<IF windows THEN "event" ELSE "SIGUSR1", 1>>

\* The event of the watcher thread is set (Windows) or SIGUSR1 arrives.
Exit_signal == \E windows \in BOOLEAN : ExitBy(dump_stacks_and_exit(windows))

\* A process with empty registries, on a file system where some of the paths
\* it will make cannot be removed.
InitLocal ==
    /\ InitCommon
    /\ InitServiceIdle
    /\ pc = "setup"
    /\ test_loops = 1
    /\ crash_method = "internal"
    /\ agentPc = "idle"
    /\ agentOps = <<>>
    /\ agentPort = "default"
    /\ rsync_dest = NoRsyncDest
    /\ hostWindows = FALSE
    /\ repl_set = FALSE
    /\ fcv_set = FALSE
    /\ logsInfo = TRUE
    /\ localPc = "running"
    /\ local_exit_path = <<>>
    /\ os_procs = [p \in Pids |-> NoProc]
    /\ os_clock = 1
    /\ PROC_LIST = <<>>
    /\ killed = {}
    /\ warn_log = <<>>
    /\ kill_calls = <<>>
    /\ FILE_MAP = {}
    /\ DIR_LIST = <<>>
    /\ fs_files = {}
    /\ fs_dirs = {}
    /\ file_seq = 1
    /\ unremovable \in {{}, {DirPath("tmp")}, {[dir |-> "tmp", id |-> 1]}}
    /\ iter_pc = "head"
    /\ local_loops = 0
    /\ temp_client_files = <<>>
    /\ client_config_files = {}
    /\ ssh_tunnel_proc = [pid |-> 1, create_time |-> 0]
    /\ clients_started = 0

NextLocal ==
    \/ Main_NamedTempFile_create
    \/ Main_setup_ssh_tunnel
    \/ Main_validation_config
    \/ Main_Processes_create
    \/ Main_Processes_kill_all
    \/ Proc_Exits
    \/ Os_Spawn
    \/ Exit_local_exit
    \/ Exit_exception
    \/ Exit_signal

SpecLocal == InitLocal /\ [][NextLocal]_vars

(***************************************************************************)
(* The loops that run a command or a query again: rsync, mongo_shell, the  *)
(* server query of start_mongod, wait_for_mongod_shutdown.                 *)
(***************************************************************************)
\* One run of a command or query: what came of it, its code, the time.
Run(out, ret) == [out |-> out, ret |-> ret, at |-> retry_now]

\* What a run of the rsync command can give: code 0, a failure with "No
\* medium found" in its output, another failure.
RsyncOutcomes == {"ok", "no_medium", "failed"}

\* A loop that runs the command again after any failure.
rsync_again_Mut(attempt, out) == out # "ok" /\ attempt < RsyncMaxAttempts

\* rsync(): "if ret == 0 or 'No medium found' not in rsync_output: break" in
\* "for attempt in range(1, max_attempts + 1)".
rsync_again(attempt, out) == out = "no_medium" /\ attempt < RsyncMaxAttempts

\* mongo_shell(): "if not ret: break", "attempt_num += 1",
\* "if attempt_num > retries: break".
mongo_shell_again(attempt_num, ret) == ret # 0 /\ attempt_num <= ShellRetries

\* What a run of buildinfo and serverStatus can give.
QueryOutcomes == {"answered", "auto_reconnect", "error"}

\* start_mongod: "break" after the two commands, "except AutoReconnect: pass"
\* in "for _ in range(100)".
query_again(attempt, out) == out = "auto_reconnect" /\ attempt < QueryAttempts

\* The function called and what it returned are kept; stop_mongod and
\* shutdown_mongod have no loop of their own.
RetryCall(fn) ==
    /\ IF retry_pc = "idle" THEN retry_fn' = fn ELSE retry_pc = "looping" /\ retry_fn = fn /\ UNCHANGED retry_fn
    /\ UNCHANGED <<ctlVars, agentVars, hostVars, cfgVars, svcVars, posixVars, procVars,
                   iterVars, trace>>

\* rsync(): one run of the rsync command, or the return without a run when
\* the host has no rsync.
Rsync_run ==
    /\ RetryCall("rsync")
    /\ \E has_rsync \in BOOLEAN, out \in RsyncOutcomes, code \in NonZero :
         IF retry_pc = "idle" /\ ~has_rsync
         THEN /\ retry_ret' = 1
              /\ retry_pc' = "returned"
              /\ UNCHANGED retry_runs
         ELSE LET ret == IF out = "ok" THEN 0 ELSE code IN
              /\ retry_runs' = Append(retry_runs, Run(out, ret))
              /\ IF rsync_again(Len(retry_runs'), out)
                 THEN retry_pc' = "looping" /\ UNCHANGED retry_ret
                 ELSE retry_pc' = "returned" /\ retry_ret' = ret
    /\ UNCHANGED <<retry_start, retry_now, retry_timeout, retry_op_ret>>

\* mongo_shell(): one run of the shell, and the sleep before the next one.
Mongo_shell_run ==
    /\ RetryCall("mongo_shell")
    /\ \E ret \in Codes :
         /\ retry_runs' = Append(retry_runs, Run(IF ret = 0 THEN "ok" ELSE "failed", ret))
         /\ IF mongo_shell_again(Len(retry_runs'), ret)
            THEN /\ retry_pc' = "looping"
                 /\ retry_now' = retry_now + ShellRetrySleep
                 /\ UNCHANGED retry_ret
            ELSE /\ retry_pc' = "returned"
                 /\ retry_ret' = ret
                 /\ UNCHANGED retry_now
    /\ UNCHANGED <<retry_start, retry_timeout, retry_op_ret>>

\* start_mongod, after mongod.start() returned 0: one turn of the query loop.
\* When the loop runs out, or another error comes, build_info has no value
\* and the operation raises.
Start_mongod_query ==
    /\ RetryCall("start_mongod_query")
    /\ \E out \in QueryOutcomes :
         /\ retry_runs' = Append(retry_runs, Run(out, 0))
         /\ IF query_again(Len(retry_runs'), out)
            THEN retry_pc' = "looping" /\ UNCHANGED retry_ret
            ELSE IF out = "answered"
            THEN retry_pc' = "returned" /\ retry_ret' = 0
            ELSE retry_pc' = "raised" /\ retry_ret' = 1
    /\ UNCHANGED <<retry_start, retry_now, retry_timeout, retry_op_ret>>

\* What mongod_control.status() can return.
WaitStatuses == {"stopped", "running", "stop pending"}

\* A test that lets the loop go on at the deadline itself.
wait_expired_Mut(now_, start, timeout) == now_ - start > timeout

\* wait_for_mongod_shutdown(): "if time.time() - start >= timeout"
wait_expired(now_, start, timeout) == now_ - start >= timeout

\* wait_for_mongod_shutdown(): "start = time.time()" and the first status.
Wait_enter ==
    /\ retry_pc = "idle"
    /\ retry_fn' = "wait_for_mongod_shutdown"
    /\ \E timeout \in Timeouts, status \in WaitStatuses :
         /\ retry_timeout' = timeout
         /\ retry_runs' = <<Run(status, 0)>>
    /\ retry_start' = retry_now
    /\ retry_pc' = "looping"
    /\ UNCHANGED <<retry_ret, retry_now, retry_op_ret>>
    /\ UNCHANGED <<ctlVars, agentVars, hostVars, cfgVars, svcVars, posixVars, procVars,
                   iterVars, trace>>

\* One test of "while status != 'stopped'": the return of 0 after the last
\* sleep, the return of 1 at the deadline, or a sleep and the next status.
\* The caller's code is the one of the wait.
Wait_turn ==
    /\ retry_pc = "looping"
    /\ retry_fn = "wait_for_mongod_shutdown"
    /\ LET status == retry_runs[Len(retry_runs)].out IN
       IF status = "stopped"
       THEN /\ retry_now' = retry_now + WaitFlushSecs
            /\ retry_ret' = 0
            /\ \E retStop \in Codes : retry_op_ret' = stop_mongod_ret(retStop, 0)
            /\ retry_pc' = "returned"
            /\ UNCHANGED retry_runs
       ELSE IF wait_expired(retry_now, retry_start, retry_timeout)
       THEN /\ retry_ret' = 1
            /\ \E retStop \in Codes : retry_op_ret' = stop_mongod_ret(retStop, 1)
            /\ retry_pc' = "returned"
            /\ UNCHANGED <<retry_now, retry_runs>>
       ELSE /\ \E late \in {0, 1} : retry_now' = retry_now + WaitPollSecs + late
            /\ \E next \in WaitStatuses :
                 retry_runs' = Append(retry_runs, [out |-> next, ret |-> 0, at |-> retry_now'])
            /\ UNCHANGED <<retry_pc, retry_ret, retry_op_ret>>
    /\ UNCHANGED <<retry_fn, retry_start, retry_timeout>>
    /\ UNCHANGED <<ctlVars, agentVars, hostVars, cfgVars, svcVars, posixVars, procVars,
                   iterVars, trace>>

\* The codes of the sub-steps of an operation, as runs.
SubSteps(names, rets) == [i \in 1..Len(names) |-> Run(names[i], rets[i])]

\* install_mongod, start_mongod or stop_mongod with the codes its sub-steps
\* return: mongod.install() and, on Windows, set_windows_bootstatuspolicy();
\* mongod.update(), mongod.start() and, with a replica set,
\* mongo_reconfig_replication(); mongod.stop() and wait_for_mongod_shutdown().
\* PosixService.update() and stop() return 0.
Lifecycle_op ==
    /\ retry_pc = "idle"
    /\ retry_pc' = "returned"
    /\ \E op \in {"install_mongod", "start_mongod", "stop_mongod"},
          first \in Codes, second \in Codes, third \in {0, 1} :
         /\ retry_fn' = op
         /\ IF op = "install_mongod"
            THEN /\ retry_runs' = SubSteps(<<"install">> \o (IF hostWindows THEN <<"policy">> ELSE <<>>),
                                           <<first, second>>)
                 /\ retry_op_ret' = install_mongod_ret(first, second)
            ELSE IF op = "start_mongod"
            THEN /\ ~hostWindows => first = 0
                 /\ retry_runs' = SubSteps(<<"update", "start">>
                                              \o (IF second = 0 /\ repl_set THEN <<"reconfig">> ELSE <<>>),
                                           <<first, second, third>>)
                 /\ retry_op_ret' = IF second # 0 THEN second
                                     ELSE start_mongod_ret(first, second, third)
            ELSE /\ ~hostWindows => first = 0
                 /\ retry_runs' = SubSteps(<<"stop", "wait">>, <<first, third>>)
                 /\ retry_op_ret' = stop_mongod_ret(first, third)
    /\ UNCHANGED <<retry_ret, retry_start, retry_now, retry_timeout>>
    /\ UNCHANGED <<ctlVars, agentVars, hostVars, cfgVars, svcVars, posixVars, procVars,
                   iterVars, trace>>

\* An agent about to call one of the functions.
InitRetry ==
    /\ InitCommon
    /\ pc = "agent"
    /\ test_loops = 1
    /\ crash_method = "internal"
    /\ agentPc = "idle"
    /\ agentOps = <<>>
    /\ agentPort = "default"
    /\ rsync_dest = NoRsyncDest
    /\ hostWindows \in BOOLEAN
    /\ repl_set \in BOOLEAN
    /\ fcv_set = FALSE
    /\ logsInfo = TRUE
    /\ InitLocalIdle

NextRetry ==
    \/ Rsync_run
    \/ Mongo_shell_run
    \/ Start_mongod_query
    \/ Wait_enter
    \/ Wait_turn
    \/ Lifecycle_op

\* Every loop goes on as long as it can.
SpecRetry == InitRetry /\ [][NextRetry]_vars /\ WF_vars(NextRetry)

(***************************************************************************)
(* Vocabulary of the properties.                                           *)
(***************************************************************************)
\* Positions of the steps named `ev` in a trace.
StepsOf(tr, ev) == {i \in 1..Len(tr) : tr[i].ev = ev}
HasStep(tr, ev) == StepsOf(tr, ev) # {}
\* The step a trace ends with.
LastStep(tr) == IF Len(tr) = 0 THEN "none" ELSE tr[Len(tr)].ev

\* The terminal states of the controller.
Exited == pc = "exited"
Success == Exited /\ REPORT_JSON_SUCCESS
SshFailure == Exited /\ EXIT_YML.ec2_ssh_failure = "recorded"
Failure == Exited /\ ~Success /\ ~SshFailure

\* Positions of main() after the canary step of an iteration.
AfterCanary == {"validate", "shutdown", "await_shutdown", "await_standard", "crash",
                "insert_canary", "dispatch_crash", "await_crash", "cleanup", "reconnect",
                "await_noop", "await_check_disk"}

(***************************************************************************)
(* Properties.                                                             *)
(***************************************************************************)
\* C1: canary validation is never performed in iteration 1 and is performed in
\* every iteration n >= 2 that reaches the canary step; in an iteration n >= 2
\* a canary document that is not found ends the run with a non-zero exit
\* status before collection validation, the shutdown or any later step.
C1_CanaryStep ==
    /\ loop_num' = 1 => ~HasStep(trace', "validate_canary")
    /\ (loop_num' >= 2 /\ pc' \in AfterCanary) => HasStep(trace', "validate_canary")
    /\ (pc = "canary" /\ pc' # "canary" /\ loop_num >= 2)
         => /\ HasStep(trace', "validate_canary")
            /\ ~find_one(canaryColl, canary_doc)
                 => /\ pc' = "exited"
                    /\ exit_status' # 0
                    /\ ~REPORT_JSON_SUCCESS'
                    /\ LastStep(trace') = "validate_canary"
                    /\ agentPc' = agentPc
C1_CanaryValidation == [][C1_CanaryStep]_vars

\* An iteration 2 whose canary was lost in the crash: the run has ended with
\* status 1 right at the canary step.
C1_Witness ==
    /\ Exited
    /\ loop_num = 2
    /\ LastStep(trace) = "validate_canary"
    /\ ~find_one(canaryColl, validated_doc)
    /\ exit_status = 1
    /\ EXIT_YML.exit_code = 1

SecretSteps(tr) == {i \in 1..Len(tr) : tr[i].port = "secret"}
\* The client commands of the agent's start_mongod.
StartCommands == {"buildinfo", "serverStatus", "reconfig"}
\* Step i of the trace has the canary validation before it.
CanaryBefore(tr, i) == \E j \in StepsOf(tr, "validate_canary") : j < i

\* C3 as stated: in an iteration n >= 2 no other step, the client commands of
\* the agent's start_mongod included, connects to the secret-port server
\* before the canary validation.
C3_NothingBeforeCanary ==
    loop_num >= 2
      => \A i \in SecretSteps(trace) :
           trace[i].ev # "validate_canary" => CanaryBefore(trace, i)

\* C3: in an iteration n >= 2 the canary validation comes before every step of
\* the controller that connects to the secret-port server (the collection
\* validation) and before the agent's shutdown command; the client commands of
\* the agent's start_mongod on the secret port come before the canary
\* validation.
C3_CanaryBeforeControllerSteps ==
    loop_num >= 2
      => /\ \A i \in SecretSteps(trace) :
              trace[i].ev \notin StartCommands \cup {"validate_canary"}
                => CanaryBefore(trace, i)
         /\ \A j \in StepsOf(trace, "validate_canary") :
              /\ \E i \in StepsOf(trace, "buildinfo") : i < j /\ trace[i].port = "secret"
              /\ \E i \in StepsOf(trace, "serverStatus") : i < j /\ trace[i].port = "secret"
              /\ repl_set => \E i \in StepsOf(trace, "reconfig") :
                                i < j /\ trace[i].port = "secret"

\* Iteration 2 has run start_mongod on the secret port, then the canary
\* validation, then the collection validation.
C3_Witness ==
    /\ loop_num = 2
    /\ repl_set
    /\ \E i, j, k \in 1..Len(trace) :
         /\ i < j /\ j < k
         /\ trace[i] = Step("agent", "reconfig", "secret")
         /\ trace[j].ev = "validate_canary"
         /\ trace[k].ev = "validate_collections"

\* The step of main() that compares the boot times: the noop dispatch has
\* returned and main() moves on.
BootCheckStep == Returned("await_noop") /\ pc' # pc
\* main() has passed the comparison: on to check_disk or to the successful end.
PassedBootCheck ==
    /\ LastStep(trace) = "boot_check_passed"
    /\ pc = "await_check_disk" \/ Success
Parsed(t) == t # BootTimeNotFound

\* C4 as stated: with crash method 'internal' main() passes the comparison
\* only if the boot time of the noop dispatch is strictly newer than the one
\* recorded from the standard-port batch.
C4_OnlyNewerPasses ==
    [][(BootCheckStep /\ crash_method = "internal" /\ PassedBootCheck')
         => /\ Parsed(boot_time_after_crash') /\ Parsed(boot_time_after_recovery)
            /\ boot_time_after_crash' > boot_time_after_recovery]_vars

\* C4: with crash method 'internal' the run fails at the comparison exactly
\* when both boot times were read and the one after the crash is not newer; it
\* passes when it is newer and also when either boot time could not be read.
C4_BootTimeAdvanced ==
    [][(BootCheckStep /\ crash_method = "internal")
         => /\ boot_time_after_crash' = get_boot_datetime(shellOut)
            /\ IF /\ Parsed(boot_time_after_crash') /\ Parsed(boot_time_after_recovery)
                  /\ boot_time_after_crash' <= boot_time_after_recovery
               THEN Failure' /\ exit_status' = 1 /\ trace' = trace
               ELSE PassedBootCheck']_vars

\* An internal crash whose noop dispatch gave no boot time: main() went on.
C4_Witness ==
    /\ crash_method = "internal"
    /\ PassedBootCheck
    /\ ~Parsed(boot_time_after_crash)
    /\ Parsed(boot_time_after_recovery)

\* Boot times the comparison can be handed.
BootTimes == {BootTimeNotFound} \cup (1..(MaxBoots + 1))

\* C5: with crash method 'kill' the comparison of the boot times never fails
\* the run: for equal, older, newer and unreadable boot times main() goes on to
\* the end of the iteration.
C5_KillSkipsBootCheck ==
    [][(BootCheckStep /\ crash_method = "kill")
         => /\ PassedBootCheck'
            /\ canary_doc' = orig_canary_doc
            /\ \A a, b \in BootTimes : ~BootTimeCheckFails(crash_method, a, b)]_vars

\* A killed server on a host that kept its boot time: main() went on.
C5_Witness ==
    /\ crash_method = "kill"
    /\ PassedBootCheck
    /\ Parsed(boot_time_after_crash)
    /\ boot_time_after_crash = boot_time_after_recovery

\* The step of main() after the crash that probes the fresh remote channel.
ReconnectStep == pc = "reconnect" /\ pc' # pc
\* Exit codes an ordinary failure ends the run with: local_exit(1) of the
\* configuration checks, the status 1 of an uncaught exception and
\* local_exit(ret) with the non-zero code of a dispatch or a validation.
OrdinaryFailureCodes == NonZero

\* C6 as stated: a failed probe after an internal crash ends the run in the
\* ssh-failure state, with an exit code no ordinary failure produces.
C6_DistinctExitCode ==
    [][(ReconnectStep /\ crash_method = "internal" /\ ~access_established(local_ops'))
         => /\ SshFailure'
            /\ exit_status' \notin OrdinaryFailureCodes]_vars

\* C6: a failed probe after an internal crash ends the run in the ssh-failure
\* state: ssh_failure_exit records the detail of the transport failure in
\* EXIT_YML and the run exits with the code the probe reported, a code an
\* ordinary failure can end with as well; what tells the two states apart is
\* the recorded detail, which no ordinary failure has.
C6_SshFailureRecorded ==
    [][/\ (ReconnectStep /\ crash_method = "internal" /\ ~access_established(local_ops'))
            => /\ SshFailure'
               /\ EXIT_YML'.ec2_ssh_failure = "recorded"
               /\ exit_status' = local_ops'
               /\ EXIT_YML'.exit_code = exit_status'
               /\ report_status' = "fail"
               /\ trace' = trace /\ agentPc' = agentPc
       /\ Failure' => /\ EXIT_YML'.ec2_ssh_failure = "absent"
                      /\ exit_status' \in OrdinaryFailureCodes]_vars

\* An internal crash after which the probe failed with code 255.
C6_Witness ==
    /\ SshFailure
    /\ crash_method = "internal"
    /\ LastStep(trace) = "cleanup"
    /\ hostBoot > 1
    /\ local_ops = 255
    /\ exit_status = 255

\* C7 as stated: the ssh-failure state is entered only with the true host
\* crash as the crash method and after the crash was triggered.
C7_OnlyAfterTrueCrash ==
    SshFailure => crash_method = "internal" /\ HasStep(trace, "dispatch_crash")

\* C7: the ssh-failure state is entered exactly when a reachability probe
\* fails, be it the probe before the first dispatch or the probe after the
\* crash step, with crash method 'kill' as well as with 'internal', or when
\* with crash method 'internal' the output of the crash dispatch shows an ssh
\* error; an ssh error in the output of a kill dispatch never enters it.
C7_SshFailureEntry ==
    [][/\ (~SshFailure /\ SshFailure')
            => \/ pc = "setup" /\ ~access_established(local_ops')
               \/ /\ pc = "reconnect" /\ ~access_established(local_ops')
                  /\ crash_method \in {"internal", "kill"}
               \/ /\ Returned("await_crash") /\ crash_method = "internal"
                  /\ shellOut.ssh_error
       /\ (pc \in {"setup", "reconnect"} /\ pc' # pc /\ ~access_established(local_ops'))
            => SshFailure'
       /\ (Returned("await_crash") /\ pc' # pc /\ crash_method = "internal"
             /\ shellOut.ssh_error)
            => SshFailure' /\ exit_status' = shellRet]_vars

\* A killed server, no host crash, and the probe after it failed: ssh-failure.
C7_Witness ==
    /\ SshFailure
    /\ crash_method = "kill"
    /\ LastStep(trace) = "cleanup"
    /\ hostBoot = 1
    /\ ~access_established(local_ops)

\* Positions of main() that wait for a dispatch named in C8.
CheckedDispatches ==
    {"await_install", "await_secret", "await_shutdown", "await_standard", "await_noop"}
        \cup (IF crash_method = "kill" THEN {"await_crash"} ELSE {})

\* C8: a non-zero code of any dispatch other than check_disk (install, the
\* secret-port batch, shutdown, the standard-port batch, the crash dispatch of
\* the kill method, the noop after the crash) ends the run in failure, with no
\* later step of the loop.
C8_DispatchFailureIsFatal ==
    [][\A p \in CheckedDispatches :
         (Returned(p) /\ shellRet # 0 /\ pc' # pc)
           => Failure' /\ trace' = trace /\ agentPc' = "idle"]_vars

C10_BatchOrder ==
    /\ Len(executed) <= Len(agentOps)
    /\ \A i \in 1..Len(executed) : executed[i] = agentOps[i]
    /\ Len(opRets) = Len(executed)
    /\ \A i \in 1..(Len(opRets) - 1) : opRets[i] = 0
    /\ agentPc = "run" => /\ \A i \in 1..Len(opRets) : opRets[i] = 0
                          /\ agentIdx = Len(executed) + 1
    /\ (agentPc \in {"done", "idle"} /\ agentOps # <<>>)
         => IF shellRet = 0
            THEN executed = agentOps /\ \A i \in 1..Len(opRets) : opRets[i] = 0
            ELSE /\ opRets # <<>>
                 /\ opRets[Len(opRets)] = shellRet
    /\ Exited => exit_status = shellRet

\* The batch 'kill_mongod stop_mongod' whose kill_mongod failed: stop_mongod
\* was not entered and the agent returned the code of kill_mongod.
C10_Witness ==
    /\ agentOps = <<"kill_mongod", "stop_mongod">>
    /\ agentPc = "done"
    /\ executed = <<"kill_mongod">>
    /\ opRets = <<255>>
    /\ shellRet = 255

\* The agent has returned (and, run as a program, may have exited).
AgentReturned == agentPc \in {"done", "idle"}

\* C11: an operation name outside the vocabulary of remote_handler is the
\* last operation the agent enters: it ends with a non-zero code, which
\* remote_handler returns without raising, and no later operation of the
\* batch is entered.
C11_UnsupportedOperation ==
    \A i \in 1..Len(executed) :
      executed[i] \notin Operations
        => /\ i = Len(executed)
           /\ opRets[i] # 0
           /\ agentPc # "run"
           /\ ~agentRaised
           /\ AgentReturned => shellRet = opRets[i]
           /\ Exited => exit_status = opRets[i] /\ EXIT_YML.exit_code = opRets[i]

\* The batch 'bogus noop': the agent returned 1 at 'bogus' and did not enter
\* the noop.
C11_Witness ==
    /\ agentOps = <<"bogus", "noop">>
    /\ agentPc = "done"
    /\ executed = <<"bogus">>
    /\ opRets = <<1>>
    /\ shellRet = 1
    /\ ~agentRaised

\* The operations of a batch, as a set.
OpsOf(batch) == {batch[i] : i \in 1..Len(batch)}
\* main() waits for the secret-port start batch of the current iteration.
SecretBatchSent == pc = "await_secret"

\* C12 as stated: the secret-port batch of iteration 1 is rsync_data,
\* start_mongod, set_fcv, seed_docs; the batch of an iteration n >= 2 has
\* neither set_fcv nor seed_docs.
C12_FirstBatchHasBoth ==
    SecretBatchSent
      => IF loop_num = 1
         THEN agentOps = <<"rsync_data", "start_mongod", "set_fcv", "seed_docs">>
         ELSE OpsOf(agentOps) \cap {"set_fcv", "seed_docs"} = {}

\* C12: the secret-port batch of iteration 1 is rsync_data, start_mongod,
\* set_fcv (only when an fcv is configured), seed_docs, in that order; the
\* batch of an iteration n >= 2 is rsync_data, start_mongod; no other dispatch
\* of the controller has set_fcv or seed_docs.
C12_SeedAndFcvOnFirstLoop ==
    /\ SecretBatchSent
         => /\ agentPort = "secret"
            /\ IF loop_num = 1
               THEN IF fcv_set
                    THEN agentOps = <<"rsync_data", "start_mongod", "set_fcv", "seed_docs">>
                    ELSE agentOps = <<"rsync_data", "start_mongod", "seed_docs">>
               ELSE agentOps = <<"rsync_data", "start_mongod">>
    /\ OpsOf(agentOps) \cap {"set_fcv", "seed_docs"} # {}
         => loop_num = 1 /\ agentPort = "secret"
    /\ "set_fcv" \in OpsOf(agentOps) => fcv_set
    /\ OpsOf(executed) \cap {"set_fcv", "seed_docs"} # {} => loop_num = 1

\* Iteration 1 without a configured fcv: the agent ran rsync_data,
\* start_mongod, seed_docs and no set_fcv.
C12_Witness ==
    /\ SecretBatchSent
    /\ loop_num = 1
    /\ ~fcv_set
    /\ agentPc = "done"
    /\ shellRet = 0
    /\ executed = <<"rsync_data", "start_mongod", "seed_docs">>

\* A path with the suffix "-n".
Suffixed(base, n) == base \o <<"-">> \o Decimal(n)
\* Values of the backup path constants the paths are computed for.
BackupBases ==
    {BACKUP_PATH_BEFORE, BACKUP_PATH_AFTER, <<"b", "-", "1">>, <<"b", "-", "0">>,
     <<"b", "-", "1", "0">>}
\* Positions of main() at which the standard-port batch of the current
\* iteration has been dispatched.
AfterStandardDispatch ==
    {"await_standard", "crash", "insert_canary", "dispatch_crash", "await_crash", "cleanup",
     "reconnect", "await_noop", "await_check_disk"}

\* C13: in every iteration n >= 1 the before-recovery and the after-recovery
\* backup path computed for the iteration is the backup directory with the
\* suffix "-n", so that the paths of iterations n and n+1 differ in the suffix
\* only; the --rsyncDest of the iteration names the path of the iteration
\* before (the first directory in iteration 1) and the path of iteration n.
C13_BackupPathSuffix ==
    /\ loop_num >= 1 =>
         /\ backup_path_before = Suffixed(BACKUP_PATH_BEFORE, loop_num)
         /\ EndsWith(backup_path_before, <<"-">> \o Decimal(loop_num))
    /\ (loop_num >= 1 /\ pc \in AfterStandardDispatch) =>
         /\ backup_path_after = Suffixed(BACKUP_PATH_AFTER, loop_num)
         /\ EndsWith(backup_path_after, <<"-">> \o Decimal(loop_num))
    /\ (pc = "await_secret" /\ loop_num >= 1) =>
         rsync_dest = <<Suffixed(BACKUP_PATH_BEFORE, IF loop_num = 1 THEN 1 ELSE loop_num - 1),
                        Suffixed(BACKUP_PATH_BEFORE, loop_num)>>
    /\ (pc = "await_standard" /\ loop_num >= 1) =>
         rsync_dest = <<Suffixed(BACKUP_PATH_AFTER, IF loop_num = 1 THEN 1 ELSE loop_num - 1),
                        Suffixed(BACKUP_PATH_AFTER, loop_num)>>
    /\ \A base \in BackupBases : \A n \in 1..MaxPathLoops :
         backup_path(base, n) = Suffixed(base, n)

\* Iteration 2 has dispatched both batches: the paths end in "-2" and the
\* standard-port batch was handed the after-recovery paths "-1" and "-2".
C13_Witness ==
    /\ loop_num = 2
    /\ pc = "await_standard"
    /\ backup_path_before = <<"b", "-", "2">>
    /\ backup_path_after = <<"a", "-", "2">>
    /\ rsync_dest = <<<<"a", "-", "1">>, <<"a", "-", "2">>>>

\* The entries of the rsync log.
RsyncEntries == {rsync_log[i] : i \in 1..Len(rsync_log)}

\* C14: a rsync_data operation renames the directory it wrote to at most once,
\* to the new path, and only when the rsync ended with 0 and the new path
\* differs from the old one; after a failed rsync, or with equal paths,
\* nothing is renamed.
C14_RenameOnlyWhenNeeded ==
    \A e \in RsyncEntries :
      /\ Len(e.renames) <= 1
      /\ e.renames # <<>> => /\ e.ret = 0
                             /\ e.dest # e.new
                             /\ e.renames = <<<<e.dest, e.new>>>>
      /\ (e.ret # 0 \/ e.dest = e.new) => e.renames = <<>>

\* A rsync_data that succeeded with two different paths: the directory was
\* renamed once and exists under the new name only.
C14_Witness ==
    /\ Len(rsync_log) = 1
    /\ rsync_log[1].ret = 0
    /\ rsync_log[1].dest = <<"b", "-", "1">>
    /\ rsync_log[1].new = <<"b", "-", "2">>
    /\ rsync_log[1].renames = <<<<rsync_log[1].dest, rsync_log[1].new>>>>
    /\ dirs = {<<"b", "-", "2">>}

\* The backup directory constant a logged path was derived from.
BaseOf(path) == IF path[1] = BACKUP_PATH_BEFORE[1] THEN BACKUP_PATH_BEFORE ELSE BACKUP_PATH_AFTER

\* C15 as stated: the directory a rsync_data writes to (the first element of
\* --rsyncDest) is a path no rsync_data of an earlier iteration wrote to.
C15_DestNeverReused ==
    \A i, j \in 1..Len(rsync_log) :
      i < j => rsync_log[i].dest # rsync_log[j].dest

\* C15: the new path of an iteration (the second element of --rsyncDest, the
\* name the directory has after the operation) is never a path of an earlier
\* iteration; the directory a rsync_data writes to is the one the iteration
\* before left behind: "-1" in iterations 1 and 2, which both write to it,
\* and "-(n-1)" in an iteration n >= 2.
C15_NewPathNeverReused ==
    /\ \A i, j \in 1..Len(rsync_log) :
         (i < j /\ rsync_log[i].loop < rsync_log[j].loop)
           => /\ rsync_log[j].new # rsync_log[i].new
              /\ rsync_log[j].new # rsync_log[i].dest
              /\ rsync_log[j].dest = rsync_log[i].dest
                   => /\ rsync_log[i].loop = 1 /\ rsync_log[j].loop = 2
                      /\ rsync_log[j].dest = rsync_log[i].new
    /\ \A e \in RsyncEntries :
         /\ e.new = Suffixed(BaseOf(e.dest), e.loop)
         /\ e.dest = Suffixed(BaseOf(e.dest), IF e.loop = 1 THEN 1 ELSE e.loop - 1)
    /\ \A i, j \in 1..Len(rsync_log) :
         (i < j /\ rsync_log[i].loop = rsync_log[j].loop)
           => BaseOf(rsync_log[i].dest) # BaseOf(rsync_log[j].dest)

\* Iteration 2 has written its before-recovery backup to "b-1", the path
\* iteration 1 wrote to, and renamed it to "b-2".
C15_Witness ==
    /\ loop_num = 2
    /\ Len(rsync_log) = 3
    /\ rsync_log[1].dest = <<"b", "-", "1">> /\ rsync_log[1].loop = 1
    /\ rsync_log[3].dest = <<"b", "-", "1">> /\ rsync_log[3].loop = 2
    /\ rsync_log[3].renames = <<<<rsync_log[3].dest, <<"b", "-", "2">>>>>>
    /\ <<"b", "-", "2">> \in dirs
    /\ <<"b", "-", "1">> \notin dirs

(***************************************************************************)
(* WindowsService.stop.                                                    *)
(***************************************************************************)
\* stop() has returned after its stop request was accepted.
StopPolled == svcPc = "returned" /\ svc_stop_err = 0

\* C16: a stop() whose request was accepted polls every StopPollSecs while the
\* status is "stop pending"; when it returns with the status still "stop
\* pending" the timeout has elapsed and its code is non-zero, and it returns 0
\* only when the status has left "stop pending".
C16_StopTimesOut ==
    StopPolled =>
      /\ svc_status = "stop pending"
           => svc_ret # 0 /\ svc_now - svc_start >= svc_timeout
      /\ svc_ret = 0 => svc_status # "stop pending"

\* The errors the status queries of the stop() call raised.
QueryErrorsRaised == {svc_query_err[i] : i \in 1..Len(svc_query_err)} \ {0}

\* The OS errors raised during the stop() call: by the stop request, by a query.
ErrorsRaised == QueryErrorsRaised \cup ({svc_stop_err} \ {0, -1})

\* C17 as stated: a broken-pipe error of the stop request or of a status query
\* makes stop() return 0; any other OS error is returned as its own number.
C17_EveryOsError ==
    svcPc = "returned" =>
      /\ ERROR_BROKEN_PIPE \in ErrorsRaised => svc_ret = 0
      /\ \A err \in ErrorsRaised \ {ERROR_BROKEN_PIPE} : svc_ret = err /\ svc_ret # 0

\* C17: a broken-pipe error of the stop request makes stop() return 0, and any
\* other error of the stop request is returned as its own non-zero number. An
\* error of a status query is never returned: the first query of the call
\* failing makes stop() return 1 without a stop request, and a later query
\* failing is the last query of the call, which returns 0.
C17_StopRequestErrors ==
    svcPc = "returned" =>
      /\ svc_stop_err = ERROR_BROKEN_PIPE => svc_ret = 0
      /\ svc_stop_err \notin {0, -1, ERROR_BROKEN_PIPE}
           => svc_ret = svc_stop_err /\ svc_ret # 0
      /\ svc_query_err[1] # 0 => svc_ret = 1 /\ svc_stop_err = -1
      /\ \A i \in 2..Len(svc_query_err) :
           svc_query_err[i] # 0 => i = Len(svc_query_err) /\ svc_ret = 0

\* The stop request of a running service raised the broken-pipe error and
\* stop() returned 0.
C17_Witness ==
    /\ svcPc = "returned"
    /\ svc_stop_err = ERROR_BROKEN_PIPE
    /\ svc_query_err = <<0>>
    /\ svc_status = "running"
    /\ svc_ret = 0

(***************************************************************************)
(* kill_process, Processes and NamedTempFile.                              *)
(***************************************************************************)
\* The kill_process calls of the step, as their places in the log.
NewKillCalls == (Len(kill_calls) + 1)..Len(kill_calls')

\* The pid of `proc` is free, or belongs to a process created at another time.
GoneOrReused(proc) == os_procs[proc.pid].ctime # proc.create_time

\* C18: a kill_process call for a process that no longer exists, or whose pid
\* now belongs to a process with another creation time, sends no kill, logs a
\* warning and returns 0; nothing is raised, so the caller goes on: the proc
\* leaves the registry, and a call that is alone in its step leaves every
\* process of the OS as it was.
C18_Step ==
    \A i \in NewKillCalls :
      GoneOrReused(kill_calls'[i].proc) =>
        /\ kill_calls'[i].sent = {}
        /\ kill_calls'[i].warned
        /\ kill_calls'[i].ret = 0
        /\ \E w \in (Len(warn_log) + 1)..Len(warn_log') :
             warn_log'[w] = kill_calls'[i].proc.pid
        /\ \A j \in 1..Len(PROC_LIST') : PROC_LIST'[j] # kill_calls'[i].proc
        /\ Len(kill_calls') = Len(kill_calls) + 1
             => killed' = killed /\ os_procs' = os_procs

C18_PidReuseGuard == [][C18_Step]_vars

\* A kill was attempted on a proc whose pid belongs to a younger process: the
\* call warned, nothing was ever killed, and the process goes on running.
C18_Witness ==
    /\ localPc = "running"
    /\ killed = {}
    /\ \E i \in 1..Len(kill_calls) :
         /\ kill_calls[i].warned
         /\ kill_calls[i].ret = 0
         /\ os_procs[kill_calls[i].proc.pid].ctime > kill_calls[i].proc.create_time

\* C19: whichever way the process ends (local_exit with any code, an uncaught
\* exception, the stack-dump signal), the exit-time cleanup calls the kill of
\* every proc of the registry once, in the order of the registry, every one
\* of them that still runs is killed, and the registry is left empty.
C19_Step ==
    (localPc = "running" /\ localPc' = "exited") =>
      /\ PROC_LIST' = <<>>
      /\ Len(kill_calls') = Len(kill_calls) + Len(PROC_LIST)
      /\ \A i \in 1..Len(PROC_LIST) :
           /\ kill_calls'[Len(kill_calls) + i].proc = PROC_LIST[i]
           /\ ~GoneOrReused(PROC_LIST[i])
                => /\ PROC_LIST[i] \in killed' \ killed
                   /\ os_procs'[PROC_LIST[i].pid] = NoProc

CleanupDone == localPc = "running" /\ iter_pc = "head" /\ local_loops >= 1

\* C21: at the end of the cleanup step of an iteration every config file made
\* for the clients of the iteration (collection validation, CRUD, FSM) is
\* deleted and out of the temp-file registry, when no removal fails.
C21_ClientConfigsDiscarded ==
    (CleanupDone /\ unremovable = {}) =>
      \A config_file \in client_config_files :
        config_file \notin FILE_MAP /\ config_file \notin fs_files

(***************************************************************************)
(* The disk check between iterations.                                      *)
(***************************************************************************)
\* main() hands the check_disk batch to the agent in this step.
CheckDiskDispatched ==
    agentPc # "pending" /\ agentPc' = "pending" /\ agentOps' = <<"check_disk">>

\* main() goes on from the returned check_disk dispatch in this step.
CheckDiskReturned == Returned("await_check_disk") /\ pc' # pc

C22_Step ==
    /\ CheckDiskDispatched =>
         /\ pc = "await_noop" /\ pc' = "await_check_disk"
         /\ 1 <= loop_num /\ loop_num < test_loops
         /\ UNCHANGED <<EXIT_YML, report_status, exit_status, REPORT_JSON_SUCCESS>>
    /\ CheckDiskReturned =>
         /\ pc' = "loop_head"
         /\ UNCHANGED <<loop_num, EXIT_YML, report_status, exit_status, REPORT_JSON_SUCCESS>>

\* C22: check_disk is dispatched only at the end of an iteration that is not
\* the last one; whatever code the dispatch returns, main() goes to the top
\* of the next iteration and the exit code, the report and the success flag
\* stay as they were.
C22_CheckDiskOnlyLogged == [][C22_Step]_vars

\* A check_disk dispatch has returned a non-zero code and main() is at the
\* top of the next iteration.
C22_Witness ==
    /\ pc = "loop_head"
    /\ agentOps = <<"check_disk">>
    /\ shellRet # 0
    /\ 1 <= loop_num /\ loop_num < test_loops
    /\ exit_status = -1

C24_Step ==
    Exit_signal =>
      /\ localPc' = "exited"
      /\ local_exit_path'[2] = 1
      /\ PROC_LIST' = <<>>
      /\ UNCHANGED <<iterVars, pc, loop_num, agentPc, agentIdx>>

test_time == now - 1

\* C30: once the wall-clock budget of the run is used up, whatever the budget
\* is, main() starts no new iteration, also when loop_num has not reached
\* test_loops.
C30_TimeBudgetEndsLoop ==
    [][loop_num' = loop_num + 1 =>
         \A budget \in 1..MaxLoops : test_time < budget]_vars

(***************************************************************************)
(* The methods of the two services.                                        *)
(***************************************************************************)
\* The request each method of WindowsService makes to the OS.
ApiOf(method) ==
    CASE method = "create" -> "InstallService"
      [] method = "update" -> "ChangeServiceConfig"
      [] method = "delete" -> "RemoveService"
      [] method = "start" -> "StartService"
      [] method = "stop" -> "StopService"

\* A method of WindowsService is called in this step.
Called(method) == svc_call = NoCall /\ svc_call'.method = method

\* A method of PosixService is called in this step.
PosixCalled(methods) ==
    /\ Len(posix_log') = Len(posix_log) + 1
    /\ posix_log'[Len(posix_log')].method \in methods

C25_Step ==
    /\ (Called("create") /\ svc_call'.status \in KnownStates) =>
         /\ svc_ret' # 0
         /\ svc_call'.api = <<>>
         /\ UNCHANGED svcState
    /\ (Called("create") /\ svc_call'.status = "not installed") =>
         /\ svc_call'.api = <<"InstallService">>
         /\ svc_call'.err = 0 => svc_ret' = 0 /\ svcState' \in KnownStates
    /\ PosixCalled({"create"}) =>
         /\ posix_log'[Len(posix_log')].ret = 0
         /\ UNCHANGED <<posix_pids, mongod_procs, lock_file>>

\* C25: WindowsService.create() on a service whose status is a known state
\* returns a non-zero code and makes no install request; on a status of
\* "not installed" it makes the install request, and returns 0 when the
\* request succeeds. PosixService.create() returns 0 and changes nothing.
C25_CreateOnlyOnce == [][C25_Step]_vars

\* create() was called on a stopped service: code 1 and no request.
C25_Witness ==
    /\ svc_call.method = "create"
    /\ svc_call.status = "stopped"
    /\ svc_call.api = <<>>
    /\ svc_ret = 1

\* C26: update(), start(), stop() and delete() of WindowsService return a
\* non-zero code without a request to the OS when the status is "not
\* installed" or "unknown", and make their request exactly once when the
\* status is a known state.
C26_KnownStateGuard ==
    svc_call.method \in {"update", "start", "stop", "delete"} =>
      IF svc_call.status \in {"not installed", "unknown"}
      THEN svc_call.api = <<>> /\ svc_ret # 0
      ELSE svc_call.status \in KnownStates /\ svc_call.api = <<ApiOf(svc_call.method)>>

\* delete() was called on a service in a state without a name: code 1 and no
\* request.
C26_Witness ==
    /\ svc_call.method = "delete"
    /\ svc_call.status = "unknown"
    /\ svc_call.api = <<>>
    /\ svc_ret = 1
    /\ svcState = "other"

\* The status() calls of posix_log.
StatusCalls == {i \in 1..Len(posix_log) : posix_log[i].method = "status"}

\* C27: PosixService.status() with no tracked pid returns "stopped" without a
\* look at the lock file; with a tracked pid it returns "stopped" and clears
\* the pids when the lock file is absent or of size zero, and "running" with
\* the pids as they were when the file is there and not empty. It returns
\* nothing else.
C27_StatusByLockFile ==
    \A i \in StatusCalls :
      LET call == posix_log[i]
      IN /\ call.status \in {"stopped", "running"}
         /\ call.pids_before = {} =>
              call.status = "stopped" /\ call.seen = <<>> /\ call.pids_after = {}
         /\ (call.pids_before # {} /\ call.seen \in {<<"absent">>, <<"empty", "empty">>}) =>
              call.status = "stopped" /\ call.pids_after = {}
         /\ (call.pids_before # {} /\ call.seen = <<"nonempty", "nonempty">>) =>
              call.status = "running" /\ call.pids_after = call.pids_before

\* status() found a lock file of size zero while a pid was tracked.
C27_Witness ==
    \E i \in StatusCalls :
      /\ posix_log[i].pids_before # {}
      /\ posix_log[i].seen = <<"empty", "empty">>
      /\ posix_log[i].status = "stopped"
      /\ posix_log[i].pids_after = {}

\* The lock file was there at os.path.exists and gone at os.stat.
Raced(call) == Len(call.seen) = 2 /\ call.seen[1] # "absent" /\ call.seen[2] = "absent"

\* C28: a status() whose lock file goes away between the existence check and
\* the size check returns "running" and keeps the tracked pids; when the next
\* call is a status() that finds the file still absent, it returns "stopped"
\* and clears the pids.
C28_RaceThenStopped ==
    \A i \in StatusCalls :
      Raced(posix_log[i]) =>
        /\ posix_log[i].status = "running"
        /\ posix_log[i].pids_after = posix_log[i].pids_before
        /\ (i + 1 \in StatusCalls /\ posix_log[i + 1].seen = <<"absent">>) =>
             /\ posix_log[i + 1].status = "stopped"
             /\ posix_log[i + 1].pids_after = {}

\* A raced status() was followed by a status() that cleared the pids.
C28_Witness ==
    \E i \in StatusCalls :
      /\ Raced(posix_log[i])
      /\ posix_log[i].status = "running"
      /\ i + 1 \in StatusCalls
      /\ posix_log[i + 1].pids_before # {}
      /\ posix_log[i + 1].status = "stopped"
      /\ posix_log[i + 1].pids_after = {}

\* stop() was called and no start() has returned 0 since.
StoppedSince(log) ==
    \E i \in 1..Len(log) :
      /\ log[i].method = "stop"
      /\ \A k \in (i + 1)..Len(log) : ~(log[k].method = "start" /\ log[k].ret = 0)

C29_Step ==
    /\ PosixCalled({"stop"}) =>
         /\ posix_log'[Len(posix_log')].ret = 0
         /\ mongod_procs' = {}
         /\ posix_pids' = {}
    /\ (PosixCalled({"status"}) /\ StoppedSince(posix_log)) =>
         posix_log'[Len(posix_log')].status = "stopped"

\* C29: PosixService.stop(timeout), from any state and for any timeout, kills
\* the processes of the server, empties the tracked pids and returns 0 in the
\* same step; every status() after it returns "stopped", whatever the lock
\* file is, until a start() returns 0.
C29_StopUnconditional == [][C29_Step]_vars

\* A started server with a non-empty lock file was stopped, and the status()
\* after that returned "stopped" with the lock file still there.
C29_Witness ==
    /\ Len(posix_log) = 3
    /\ posix_log[1].method = "start" /\ posix_log[1].pids_after # {}
    /\ posix_log[2].method = "stop" /\ posix_log[2].pids_before # {}
    /\ posix_log[3].method = "status" /\ posix_log[3].status = "stopped"
    /\ lock_file = "nonempty"

(***************************************************************************)
(* Commands that are run again.                                            *)
(***************************************************************************)
\* The runs of the call but the last one.
EarlierRuns == 1..(Len(retry_runs) - 1)

LifecycleSteps == {"install", "update", "stop"}

\* C32: in install_mongod, start_mongod and stop_mongod a non-zero code of
\* mongod.install(), mongod.update() or mongod.stop() makes the operation
\* return a non-zero code.
C32_SubStepSurfaced ==
    retry_fn \in {"install_mongod", "start_mongod", "stop_mongod"} =>
      \A i \in 1..Len(retry_runs) :
        (retry_runs[i].out \in LifecycleSteps /\ retry_runs[i].ret # 0) => retry_op_ret # 0

(***************************************************************************)
(* wait_for_mongod_shutdown.                                               *)
(***************************************************************************)
\* The last status wait_for_mongod_shutdown got.
LastStatus == retry_runs[Len(retry_runs)].out

C36_Poll ==
    retry_fn = "wait_for_mongod_shutdown" =>
      /\ retry_start = retry_runs[1].at
      /\ \A i \in EarlierRuns :
           /\ retry_runs[i].out # "stopped"
           /\ retry_runs[i].at - retry_start < retry_timeout
           /\ retry_runs[i + 1].at - retry_runs[i].at \in {WaitPollSecs, WaitPollSecs + 1}
      /\ retry_pc = "returned" =>
           /\ retry_ret \in {0, 1}
           /\ retry_ret = 0 <=> LastStatus = "stopped"
           /\ retry_ret = 1 <=>
                (LastStatus # "stopped" /\ retry_now - retry_start >= retry_timeout)
           /\ retry_ret # 0 => retry_op_ret # 0

\* C36: wait_for_mongod_shutdown takes its start time once, asks the status
\* every WaitPollSecs seconds, returns 0 exactly when a status was "stopped"
\* and 1 exactly when the deadline had passed with another status, asks no
\* status after a test at or past the deadline, and always returns; its
\* non-zero code is the code of stop_mongod and shutdown_mongod.
C36_PollWithDeadline ==
    /\ []C36_Poll
    /\ (retry_fn = "wait_for_mongod_shutdown") ~> (retry_pc = "returned")

\* The wait returned 1 after three statuses, none of them "stopped", and the
\* operation returned 1.
C36_Witness ==
    /\ retry_fn = "wait_for_mongod_shutdown"
    /\ retry_pc = "returned"
    /\ Len(retry_runs) = 3
    /\ retry_ret = 1
    /\ retry_op_ret = 1

(***************************************************************************)
(* C33: the order of the steps of one iteration.                           *)
(***************************************************************************)
\* The events of the controller in the trace of the iteration, in order.
RECURSIVE MainSteps(_)
MainSteps(tr) ==
    IF tr = <<>>
    THEN <<>>
    ELSE (IF tr[1].who = "main" THEN <<tr[1].ev>> ELSE <<>>) \o MainSteps(Tail(tr))

\* The steps of iteration n in the order the claim gives them, with the
\* jittered delay of the crash step between the client launch and the insert.
IterationOrder(n) ==
    <<"start_secret", "tunnel">>
        \o (IF n >= 2 THEN <<"validate_canary">> ELSE <<>>)
        \o <<"validate_collections", "shutdown_secret", "start_standard", "start_clients",
             "crash_wait", "insert_canary", "dispatch_crash", "cleanup", "reconnect",
             "boot_check_passed">>

IsPrefix(s, t) ==
    /\ Len(s) <= Len(t)
    /\ \A i \in 1..Len(s) : s[i] = t[i]

\* The last start_mongod that answered did so on the standard port, and no
\* shutdown command was sent after it.
ServerOnStandardPort(tr) ==
    \E i \in 1..Len(tr) :
      /\ tr[i] = Step("agent", "serverStatus", "standard")
      /\ \A j \in (i + 1)..Len(tr) : tr[j].ev \notin {"shutdown", "serverStatus"}

\* The steps taken so far are a beginning of the order of the iteration;
\* the clients were launched after the standard-port server answered.
C33_Order ==
    /\ IsPrefix(MainSteps(trace), IterationOrder(loop_num))
    /\ \A i \in StepsOf(trace, "start_clients") : ServerOnStandardPort(SubSeq(trace, 1, i - 1))

\* The dispatches of the iteration whose return the next step waits for.
IterationDispatches == {"await_secret", "await_shutdown", "await_standard", "await_crash"}

\* A step that follows a validation follows a passed validation.
C33_AfterValidation ==
    (pc = "canary" /\ pc' = "validate" /\ loop_num >= 2)
      => mongo_validate_canary(canaryColl, canary_doc) = 0

\* C33 as stated: the step after a dispatch starts only after the dispatch
\* returned 0.
C33_StrictStep ==
    /\ \A p \in IterationDispatches : (pc = p /\ pc' \notin {p, "exited"}) => shellRet = 0
    /\ C33_AfterValidation

C33_Step ==
    /\ \A p \in IterationDispatches :
         (pc = p /\ pc' \notin {p, "exited"})
           => /\ agentPc = "done"
              /\ shellRet = 0 \/ (p = "await_crash" /\ crash_method = "internal")
    /\ C33_AfterValidation

C34_CanaryBeforeCrash ==
    /\ \A i \in StepsOf(trace, "insert_canary") :
         /\ i > 1
         /\ trace[i - 1] = Step("main", "crash_wait", "none")
    /\ \A i \in StepsOf(trace, "dispatch_crash") :
         /\ i > 1
         /\ trace[i - 1] = Step("main", "insert_canary", "standard")
         /\ Len(canary_log) = loop_num
         /\ CrashSupported(crash_method)
    /\ pc \in {"dispatch_crash", "await_crash"} => HasStep(trace, "insert_canary")
    /\ pc = "await_crash"
         => HasStep(trace, "dispatch_crash") /\ canary_doc = WithId(orig_canary_doc, loop_num)
    /\ (CrashSupported(crash_method) /\ HasStep(trace, "cleanup"))
         => HasStep(trace, "insert_canary") /\ HasStep(trace, "dispatch_crash")

\* The crash command of the second iteration is with the agent, right after
\* the insert of the canary of that iteration.
C34_Witness ==
    /\ loop_num = 2
    /\ pc = "await_crash"
    /\ agentPc = "run"
    /\ agentOps = <<crash_cmd(crash_method)>>
    /\ LastStep(trace) = "dispatch_crash"
    /\ Len(canary_log) = 2

(***************************************************************************)
(* C35: the crash step.                                                    *)
(***************************************************************************)
C35_Step ==
    /\ (pc = "dispatch_crash" /\ pc' # pc)
         => /\ pc' = "await_crash"
            /\ agentPc' = "pending"
            /\ agentOps' = <<IF crash_method = "kill" THEN "kill_mongod" ELSE "crash_server">>
            /\ crash_method \in {"kill", "internal"}
    /\ (pc = "crash" /\ pc' # pc /\ crash_method \notin {"kill", "internal"})
         => /\ Failure'
            /\ exit_status' = 1
            /\ UNCHANGED <<canary_log, canaryColl, agentVars>>
            /\ ~HasStep(trace', "insert_canary")
            /\ ~HasStep(trace', "dispatch_crash")
    /\ (Returned("await_crash") /\ pc' # pc /\ crash_method = "kill" /\ shellRet # 0)
         => Failure' /\ exit_status' # 0 /\ trace' = trace
    /\ (Returned("await_crash") /\ pc' # pc /\ crash_method = "internal")
         => IF shellOut.ssh_error
            THEN SshFailure'
            ELSE pc' = "reconnect" /\ LastStep(trace') = "cleanup"

\* C35: the crash step dispatches exactly one remote operation chosen by the
\* configuration, kill_mongod for crash method 'kill' and crash_server for
\* 'internal'; for any other crash method it inserts no canary and
\* dispatches nothing, and the run fails with code 1; with 'kill' a non-zero
\* result of the dispatch fails the run; with 'internal' the step that
\* follows does not depend on the result code.
C35_CrashStep ==
    /\ [](Cardinality(StepsOf(trace, "dispatch_crash")) <= 1)
    /\ [][C35_Step]_vars

\* A run with an unsupported crash method ended in the crash step of its
\* first iteration, with no canary inserted.
C35_Witness ==
    /\ crash_method = "other"
    /\ Failure
    /\ exit_status = 1
    /\ LastStep(trace) = "crash_wait"
    /\ canary_log = <<>>

(***************************************************************************)
(* C37: shutdown_mongod on the forked-daemon variant.                      *)
(***************************************************************************)
\* C37: on the forked-daemon variant, shutdown_mongod run in its own agent
\* invocation returns success only after the server has stopped, and the
\* standard-port start batch never begins while the secret-port server is
\* still running.
C37_Step ==
    /\ (~hostWindows /\ AgentAt("shutdown_mongod") /\ Len(opRets') > Len(opRets)
          /\ opRets'[Len(opRets')] = 0)
         => mongodPort' = "none"
    /\ (~hostWindows /\ pc = "await_shutdown" /\ pc' = "await_standard")
         => mongodPort # "secret"

C37_ShutdownWaitsForServer == [][C37_Step]_vars

(***************************************************************************)
(* C38: the ssh tunnel at the end of the run.                              *)
(***************************************************************************)
\* The process setup_ssh_tunnel started is still there: its pid is taken by a
\* process with the creation time psutil.Popen recorded.
TunnelAlive ==
    /\ os_procs[ssh_tunnel_proc.pid] # NoProc
    /\ os_procs[ssh_tunnel_proc.pid].ctime = ssh_tunnel_proc.create_time

\* C38: whenever the controller reaches a terminal state, the ssh tunnel
\* process opened in the current iteration has been killed, also when the run
\* ends between the opening of the tunnel and the cleanup step.
C38_TunnelKilledAtExit == localPc = "exited" => ~TunnelAlive

(***************************************************************************)
(* C39: the exit code of the exit file.                                    *)
(***************************************************************************)
\* C39: whenever the run of the controller ends in a terminal state other
\* than success, the exit code recorded in EXIT_YML is non-zero; it is 0 only
\* when the run ended in success.
C39_ExitCodeRecorded == Exited => (EXIT_YML.exit_code = 0 <=> Success)

====
